---- MODULE Spec2Model ----
(***************************************************************************)
(* Transactional outbox of Clean-Orders-PG: the outbox table, the          *)
(* OutboxDispatcher poll cycle (claim with FOR UPDATE SKIP LOCKED, publish, *)
(* mark as published), the OutboxEventBus write side, PostgresUnitOfWork,   *)
(* the Order aggregate and the use cases on the PostgreSQL and in-memory    *)
(* wirings.                                                                 *)
(***************************************************************************)
EXTENDS Integers, Sequences, FiniteSets, TLC

\* ------------------------------------------------------------------ bounds
MaxRows == 2
MaxFail == 1
MaxBatch == 2
MaxEvents == 2
MaxLines == 1
MaxCalls == 3
MaxOrders == 2
MaxPool == 2

\* maxConnections of the database configuration (default)
DefaultMaxConnections == 20

\* outbox.maxRetries of the configuration: an integer >= 0, here the smallest.
\* The dispatcher receives it and only logs it in start().
maxRetries == 0

\* published_at TIMESTAMP WITH TIME ZONE NULL: 0 stands for NULL, the clock
\* starts at 1.
NULL == 0

\* Dispatcher instances (separate OutboxDispatcher objects on one table) and
\* aggregate ids.
Insts == {"d1", "d2"}
Aggs == {"o1", "o2"}

\* Concurrent requests, each executing a use case.
Reqs == {"q1", "q2"}

VARIABLES
    outbox,        \* committed rows of table outbox: id -> row
    rowLock,       \* row locks of open transactions: id -> owner or "none"
    clock,         \* database / process time
    nextId,        \* next fresh row id (randomUUID)
    config,        \* OutboxConfig given to the dispatchers
    pc,            \* per instance: position inside processOutbox
    isProcessing,  \* per instance: the single-flight flag
    intervalId,    \* per instance: TRUE when the periodic timer is installed
    stats,         \* per instance: DispatcherStats
    batch,         \* per instance: `events`, the claimed rows (ids, in order)
    markTs,        \* per instance: NOW() of the open markAsPublished transaction
    pubLog,        \* calls of the event publisher: [inst, ids, ok]
    nFail,         \* number of injected failures so far
    timers,        \* per instance: live setInterval timers of the event loop
    inFlight,      \* per instance: processOutbox calls past the guard, not finished
    sd,            \* per instance: position of the shutdown() call
    startSkipped,  \* per instance: the processOutbox call of the last start() returned at the guard
    leased,        \* connections checked out of the Pool and not yet released
    orders,        \* committed rows of orders / order_items: id -> number of lines
    tx,            \* the open transaction of the PostgresUnitOfWork client
    uow,           \* the PostgresUnitOfWork.run call and its work function
    uc,            \* per request: the use case execution
    busCall,       \* the last OutboxEventBus.publish(events) call and its result
    dom,           \* an Order aggregate in memory, its event buffer and its caller
    mem,           \* the use cases on the in-memory repository and event bus
    retry,         \* per instance: the retryFailedEvents call
    poolMax,       \* `max` of the Pool: connections it hands out at a time
    cleanup,       \* the cleanup() call of the container and the pool.end() calls
    repo           \* rows of one order in PostgreSQL and the aggregate loaded from them

\* The retryFailedEvents calls, the size of the Pool and the container's
\* cleanup, the rows of the repository.
admVars == <<retry, poolMax, cleanup, repo>>

vars == <<outbox, rowLock, clock, nextId, config, pc, isProcessing,
          intervalId, stats, batch, markTs, pubLog, nFail, timers, inFlight, sd,
          startSkipped, leased, orders, tx, uow, uc, busCall, dom, mem, admVars>>

dbVars == <<outbox, rowLock, clock, nextId>>

\* The timers, the shutdown() calls and the outcome of start()'s own poll.
lifeVars == <<timers, sd, startSkipped>>

dispVars == <<rowLock, config, pc, isProcessing, intervalId, stats, batch,
              markTs, pubLog, inFlight, lifeVars>>

appVars == <<orders, tx, uow, uc, busCall, dom, mem, admVars>>

\* ----------------------------------------------------------------- helpers
Min(a, b) == IF a < b THEN a ELSE b

Range(s) == {s[k] : k \in 1..Len(s)}

Ids(tbl) == DOMAIN tbl

\* INSERT INTO outbox (...) VALUES (...), (...): n rows of one statement, ids
\* first..first+n-1 in the order of the events, created_at DEFAULT NOW() (the
\* same value for all rows of the statement), published_at NULL.
OutboxInsert(tbl, first, agg, evts, ts) ==
    [r \in Ids(tbl) \cup (first..(first + Len(evts) - 1)) |->
        IF r \in Ids(tbl) THEN tbl[r]
        ELSE [agg |-> agg, evt |-> evts[r - first + 1],
              created_at |-> ts, published_at |-> NULL]]

\* The WHERE clause left out: every row qualifies.
PendingAll(tbl) == Ids(tbl)

\* WHERE published_at IS NULL
Pending(tbl) == {r \in Ids(tbl) : tbl[r].published_at = NULL}

\* FOR UPDATE SKIP LOCKED: rows locked by another transaction are left out.
Unlocked(lk, rows) == {r \in rows : lk[r] = "none"}

\* LIMIT k without the ORDER BY: any Min(k, |rows|) distinct rows in any order.
Limit(tbl, rows, k) ==
    LET n == Min(k, Cardinality(rows))
    IN {s \in [1..n -> rows] : \A a, b \in 1..n : a < b => s[a] # s[b]}

\* ORDER BY created_at ASC LIMIT k over the set rows: every sequence of
\* Min(k, |rows|) distinct rows that is sorted by created_at and leaves out no
\* row older than one it contains. Rows with equal created_at come in any
\* order (the query names no tie-break).
OrderedLimit(tbl, rows, k) ==
    LET n == Min(k, Cardinality(rows))
    IN {s \in [1..n -> rows] :
          /\ \A a, b \in 1..n : a < b =>
                /\ s[a] # s[b]
                /\ tbl[s[a]].created_at <= tbl[s[b]].created_at
          /\ \A r \in rows \ Range(s) : \A a \in 1..n :
                tbl[s[a]].created_at <= tbl[r].created_at}

\* Events already emitted by an aggregate (its highest event number).
LastEvt(tbl, agg) ==
    LET es == {tbl[r].evt : r \in {x \in Ids(tbl) : tbl[x].agg = agg}}
    IN IF es = {} THEN 0 ELSE CHOOSE e \in es : \A f \in es : f <= e

\* ------------------------------------------------------------------- Order
\* The aggregate in memory: its id, the number of its lines and the buffer of
\* events not yet cleared. Event 1 of an order is OrderCreated, event k + 1 is
\* the OrderLineAdded of its k-th line.
NoOrder == [id |-> "none", lines |-> 0, events |-> <<>>]

\* Order.create(id, currency)
OrderCreate(id) == [id |-> id, lines |-> 0, events |-> <<1>>]

\* order.addLine(sku, quantity, unitPrice), the validations passing
OrderAddLine(o) == [o EXCEPT !.lines = @ + 1, !.events = Append(@, o.lines + 2)]

\* order.clearEvents()
OrderClearEvents(o) == [o EXCEPT !.events = <<>>]

\* PostgresOrderRepository.mapToOrder: the aggregate is rebuilt and its events
\* are cleared.
MapToOrder(id, lines) == [id |-> id, lines |-> lines, events |-> <<>>]

\* upsertOrder + replaceOrderItems on table tbl
SaveOrder(tbl, o) ==
    [x \in DOMAIN tbl \cup {o.id} |-> IF x = o.id THEN o.lines ELSE tbl[x]]

\* The writes of a transaction become visible (COMMIT).
ApplyWrites(tbl, writes) ==
    [x \in DOMAIN tbl \cup DOMAIN writes |->
        IF x \in DOMAIN writes THEN writes[x] ELSE tbl[x]]

NoTx == [open |-> FALSE, writes |-> <<>>, rows |-> <<>>, ts |-> NULL]

InitUow == [pc |-> "idle", op |-> "none", result |-> "none", error |-> "none",
            ret |-> "none", stmts |-> <<>>, order |-> NoOrder, pre |-> <<>>,
            bus |-> "pool", saved |-> <<>>, published |-> {}, busOps |-> <<>>,
            busLeased |-> 0, acquired |-> 0, releases |-> 0]

InitUc == [pc |-> "idle", kind |-> "none", order |-> NoOrder, result |-> "none"]

NoCall == [events |-> <<>>, result |-> "none", error |-> "none", ops |-> <<>>]

\* ------------------------------------------------ Order aggregate, in full
\* Strings handed to Order.create and Money.create. Blank: trim().length is 0.
OrderIds == {"ORD-001", "", "   "}

CurrencyInputs == {"EUR", "USD", "eur", ""}

Blank(str) == str \in {"", "   "}

\* /^[A-Z]{3}$/ over the strings above
IsCurrencyCode(str) == str \in {"EUR", "USD"}

\* Amounts are counted in thousandths of the currency unit, so that a
\* number with more than two decimals can be written: 29990 is 29.99.
RawAmounts == {29990, 10004}

\* Math.round(amount * 100) / 100
Round2(amount) == ((amount + 5) \div 10) * 10

\* Money.create(amount, currency)
MoneyCreate(amount, currency) ==
    IF ~IsCurrencyCode(currency) \/ amount < 0
    THEN [threw |-> TRUE]
    ELSE [threw |-> FALSE, money |-> [amount |-> Round2(amount), currency |-> currency]]

\* Money.zero(currency)
MoneyZero(currency) == MoneyCreate(0, currency)

\* money.add(other)
MoneyAdd(m, other) ==
    IF m.currency # other.currency THEN [threw |-> TRUE]
    ELSE MoneyCreate(m.amount + other.amount, m.currency)

\* money.multiply(multiplier)
MoneyMultiply(m, multiplier) == MoneyCreate(m.amount * multiplier, m.currency)

\* The value objects a caller can pass to addLine: SKU.create and
\* Quantity.create have accepted them, Money.create has rounded the price.
Skus == {"BOOK001", "BOOK002"}

Quantities == {1, 2}

Prices == {MoneyCreate(a, c).money : a \in RawAmounts, c \in {"EUR", "USD"}}

\* OrderLine.create(sku, quantity, unitPrice)
OrderLineCreate(sku, quantity, unitPrice) ==
    [sku |-> sku, quantity |-> quantity, unitPrice |-> unitPrice]

\* getSubtotal() returning the unit price, the quantity left out.
GetSubtotalOfOne(line) == MoneyMultiply(line.unitPrice, 1).money

\* line.getSubtotal()
GetSubtotal(line) == MoneyMultiply(line.unitPrice, line.quantity).money

\* new OrderCreated(id, currency), new OrderLineAdded(id, line, newTotal)
OrderCreated(id, currency) ==
    [type |-> "OrderCreated", orderId |-> id, currency |-> currency]

OrderLineAdded(id, line, newTotal) ==
    [type |-> "OrderLineAdded", orderId |-> id, line |-> line, newTotal |-> newTotal]

\* addEvent pushing the event twice.
AddEventTwice(events, event) == Append(Append(events, event), event)

\* order.addEvent(event): this.events.push(event)
AddEvent(events, event) == Append(events, event)

\* The aggregate: its fields other than the event buffer (held apart, as the
\* array the field `events` refers to).
NoAggregate == [id |-> "", currency |-> "", lines |-> <<>>,
                total |-> [amount |-> 0, currency |-> ""]]

\* Order.create(id, currency): the checks of id and currency, the constructor
\* (Money.zero(currency) throws for a currency that is not a 3-letter code),
\* the OrderCreated event.
Create(id, currency) ==
    IF Blank(id) \/ Blank(currency) \/ MoneyZero(currency).threw
    THEN [threw |-> TRUE]
    ELSE [threw |-> FALSE,
          order |-> [id |-> id, currency |-> currency, lines |-> <<>>,
                     total |-> MoneyZero(currency).money],
          events |-> AddEvent(<<>>, OrderCreated(id, currency))]

\* The checks of addLine without the one for a SKU already present.
RejectsCurrencyOnly(o, sku, unitPrice) == unitPrice.currency # o.currency

\* The two checks at the head of addLine: the currency of the unit price, a
\* SKU already present.
Rejects(o, sku, unitPrice) ==
    \/ unitPrice.currency # o.currency
    \/ \E k \in 1..Len(o.lines) : o.lines[k].sku = sku

\* order.addLine(sku, quantity, unitPrice) on the aggregate o with buffer
\* events: throw before any change, or push the line, add its subtotal to
\* the total and push OrderLineAdded with the new total.
AddLine(o, events, sku, quantity, unitPrice) ==
    IF Rejects(o, sku, unitPrice)
    THEN [threw |-> TRUE, order |-> o, events |-> events]
    ELSE LET newLine == OrderLineCreate(sku, quantity, unitPrice)
             sum == MoneyAdd(o.total, GetSubtotal(newLine))
         IN IF sum.threw
            THEN [threw |-> TRUE, order |-> [o EXCEPT !.lines = Append(@, newLine)],
                  events |-> events]
            ELSE [threw |-> FALSE,
                  order |-> [o EXCEPT !.lines = Append(@, newLine), !.total = sum.money],
                  events |-> AddEvent(events, OrderLineAdded(o.id, newLine, sum.money))]

\* getEvents() handing out the buffer itself.
GetEventsNoCopy(ref) == ref

\* order.getEvents(): [...this.events], a new array. The result is the
\* array the caller's reference points to: "buf" is the buffer of the
\* aggregate, "own" an array of the caller.
GetEvents(ref) == "own"

\* clearEvents() leaving the buffer as it is.
ClearEventsKeeps(events) == events

\* clearEvents() dropping the newest event only.
ClearEventsPop(events) == IF events = <<>> THEN <<>> ELSE SubSeq(events, 1, Len(events) - 1)

\* order.clearEvents(): this.events.length = 0
ClearEvents(events) == <<>>

\* dom: the aggregate (exists once create has returned), the array of its
\* events, the array `own` and the reference `ref` a caller has got from
\* getEvents ("none" before), the addLine calls so far, the mutating calls that have succeeded, whether
\* clearEvents was called, and the last call with its arguments and outcome
\* (again: a clearEvents call that follows a clearEvents call).
NoLast == [op |-> "none", threw |-> FALSE]

InitDom == [exists |-> FALSE, order |-> NoAggregate, events |-> <<>>,
            own |-> <<>>, ref |-> "none",
            calls |-> 0, succeeded |-> 0, cleared |-> FALSE, last |-> NoLast]

\* What the caller reads through its snapshot reference.
Snapshot == IF dom.ref = "buf" THEN dom.events ELSE dom.own

otherVars == <<dbVars, dispVars, nFail, leased, orders, tx, uow, uc, busCall, mem, admVars>>

\* Order.create(id, currency) by the caller
CallCreate(id, currency) ==
    /\ ~dom.exists
    /\ dom.last.op = "none"
    /\ LET r == Create(id, currency)
       IN dom' = IF r.threw
                 THEN [dom EXCEPT !.last = [op |-> "create", threw |-> TRUE]]
                 ELSE [dom EXCEPT !.exists = TRUE, !.order = r.order, !.events = r.events,
                                  !.succeeded = 1,
                                  !.last = [op |-> "create", threw |-> FALSE]]
    /\ UNCHANGED otherVars

\* order.addLine(sku, quantity, unitPrice) by the caller
CallAddLine(sku, quantity, unitPrice) ==
    /\ dom.exists
    /\ dom.calls < MaxCalls
    /\ LET r == AddLine(dom.order, dom.events, sku, quantity, unitPrice)
       IN dom' = [dom EXCEPT !.order = r.order, !.events = r.events,
                             !.calls = @ + 1,
                             !.succeeded = IF r.threw THEN @ ELSE @ + 1,
                             !.last = [op |-> "addLine", threw |-> r.threw, sku |-> sku,
                                       quantity |-> quantity, unitPrice |-> unitPrice]]
    /\ UNCHANGED otherVars

\* const snapshot = order.getEvents()
CallGetEvents ==
    /\ dom.exists
    /\ dom' = [dom EXCEPT !.ref = GetEvents("buf"),
                          !.own = dom.events,
                          !.last = [op |-> "getEvents", threw |-> FALSE]]
    /\ UNCHANGED otherVars

\* order.clearEvents() by the caller
CallClearEvents ==
    /\ dom.exists
    /\ dom' = [dom EXCEPT !.events = ClearEvents(@),
                          !.cleared = TRUE,
                          !.last = [op |-> "clearEvents", threw |-> FALSE,
                                    again |-> dom.last.op = "clearEvents"]]
    /\ UNCHANGED otherVars

\* The caller writes to the array it got from getEvents (ReadonlyArray is a
\* compile-time type only): snapshot.length = 0.
CallerEditsSnapshot ==
    /\ dom.ref # "none"
    /\ Snapshot # <<>>
    /\ dom' = IF dom.ref = "buf"
              THEN [dom EXCEPT !.events = <<>>,
                               !.last = [op |-> "edit", threw |-> FALSE]]
              ELSE [dom EXCEPT !.own = <<>>,
                               !.last = [op |-> "edit", threw |-> FALSE]]
    /\ UNCHANGED otherVars

\* InMemoryOrderRepository (orders: id -> the Order object, held by
\* reference; sequence), InMemoryEventBus (events), the use case calls made
\* and the last one with its dto and Result.
InitMem == [orders |-> <<>>, sequence |-> 1, published |-> <<>>, calls |-> 0,
            last |-> [op |-> "none", ok |-> TRUE, type |-> "none"]]

\* A retryFailedEvents call: where it stands, the rows it has selected, its
\* cutoff, the connections it holds, and how the last call ended (status
\* "returned" with the count it returned, or "rejected").
NoRetry == [pc |-> "idle", rows |-> <<>>, cutoff |-> 0, held |-> 0, markTs |-> 0,
            status |-> "none", count |-> 0]

\* The cleanup() call of the container: where it stands, how often pool.end()
\* has been called on the shared Pool, and how the call ended.
NoCleanup == [pc |-> "none", ends |-> 0, result |-> "none"]

\* The rows of an order in orders / order_items (stored: save has
\* committed), the aggregate as it was saved, the aggregate findById has
\* handed out with its event buffer (phase "loaded") and the saved aggregate
\* whose rows it was built from, and the loaded aggregate after the addLine
\* of a use case (phase "added").
NoRepo == [stored |-> FALSE, orderRow |-> <<>>, itemRows |-> <<>>, saved |-> NoAggregate,
           phase |-> "none", order |-> NoAggregate, events |-> <<>>,
           from |-> NoAggregate]

\* -------------------------------------------------------------------- Init
InitStats == [totalProcessed |-> 0, totalPublished |-> 0, totalFailed |-> 0,
              lastRun |-> NULL, isRunning |-> FALSE]

InitState ==
    /\ outbox = <<>>
    /\ rowLock = [r \in 1..MaxRows |-> "none"]
    /\ clock = 1
    /\ nextId = 1
    /\ config \in [batchSize : 1..MaxBatch, enabled : BOOLEAN]
    /\ pc = [i \in Insts |-> "idle"]
    /\ isProcessing = [i \in Insts |-> FALSE]
    /\ intervalId = [i \in Insts |-> FALSE]
    /\ stats = [i \in Insts |-> InitStats]
    /\ batch = [i \in Insts |-> <<>>]
    /\ markTs = [i \in Insts |-> NULL]
    /\ pubLog = <<>>
    /\ nFail = 0
    /\ timers = [i \in Insts |-> 0]
    /\ inFlight = [i \in Insts |-> 0]
    /\ sd = [i \in Insts |-> "none"]
    /\ startSkipped = [i \in Insts |-> FALSE]
    /\ leased = 0
    /\ orders = <<>>
    /\ tx = NoTx
    /\ uow = InitUow
    /\ uc = [q \in Reqs |-> InitUc]
    /\ busCall = NoCall
    /\ dom = InitDom
    /\ mem = InitMem
    /\ retry = [i \in Insts |-> NoRetry]
    /\ cleanup = NoCleanup
    /\ repo = NoRepo

\* The default configuration of the Pool.
Init == InitState /\ poolMax = DefaultMaxConnections

\* A Pool of a small size.
InitSmallPool == InitState /\ poolMax \in 1..MaxPool

\* ------------------------------------------------- OutboxEventBus (on a Pool)
\* OutboxEventBus.publish(events) of an event bus built on the Pool: one
\* autocommitted INSERT of n rows for the next n events of aggregate agg.
NewEvents(tbl, agg, n) == [k \in 1..n |-> LastEvt(tbl, agg) + k]

OutboxEventBusPublish(agg, n) ==
    /\ nextId + n - 1 <= MaxRows
    /\ clock' = clock + 1
    /\ outbox' = OutboxInsert(outbox, nextId, agg, NewEvents(outbox, agg, n), clock')
    /\ nextId' = nextId + n
    /\ UNCHANGED <<appVars, rowLock, config, pc, isProcessing, intervalId, stats, batch,
                   markTs, pubLog, nFail, inFlight, lifeVars, leased>>

\* Domain events handed to publish: Order events carry orderId, an event of
\* another kind does not.
OrderEvents == [orderId : Aggs, evt : 1..MaxEvents]

OtherEvent == [evt |-> MaxEvents + 1]

InsertAt(s, k, e) == SubSeq(s, 1, k - 1) \o <<e>> \o SubSeq(s, k, Len(s))

\* Lists of up to MaxEvents Order events, with or without one event of
\* another kind at some position.
EventLists ==
    LET valid == UNION {[1..n -> OrderEvents] : n \in 0..MaxEvents}
    IN valid \cup UNION {{InsertAt(s, k, OtherEvent) : k \in 1..(Len(s) + 1)} : s \in valid}

\* The loop of publish skipping an event without aggregate id instead of
\* throwing.
RECURSIVE BuildValuesSkipsMalformed(_, _)
BuildValuesSkipsMalformed(es, acc) ==
    IF es = <<>> THEN acc
    ELSE IF "orderId" \notin DOMAIN Head(es)
         THEN BuildValuesSkipsMalformed(Tail(es), acc)
         ELSE BuildValuesSkipsMalformed(Tail(es),
                  Append(acc, [agg |-> Head(es).orderId, evt |-> Head(es).evt]))

\* The loop of publish over the events: extractAggregateId throws for an
\* event without orderId, else one record is added to values. Nothing is
\* written before the loop has ended.
RECURSIVE BuildValues(_, _)
BuildValues(es, acc) ==
    IF es = <<>> THEN acc
    ELSE IF "orderId" \notin DOMAIN Head(es)
         THEN "throw"
         ELSE BuildValues(Tail(es),
                  Append(acc, [agg |-> Head(es).orderId, evt |-> Head(es).evt]))

\* INSERT INTO outbox ... VALUES of the records recs: one statement.
InsertValues(tbl, first, recs, ts) ==
    [r \in Ids(tbl) \cup (first..(first + Len(recs) - 1)) |->
        IF r \in Ids(tbl) THEN tbl[r]
        ELSE [agg |-> recs[r - first + 1].agg, evt |-> recs[r - first + 1].evt,
              created_at |-> ts, published_at |-> NULL]]

\* publish without the early return for an empty list: it connects and sends
\* an INSERT with an empty VALUES list.
CallOpsNoEarlyReturn(es, outcome, values) ==
    IF outcome = "connectFail" THEN <<"connect">>
    ELSE IF values = "throw" THEN <<"connect", "release">>
    ELSE <<"connect", "insert", "release">>

\* What one publish call does with the Pool and the connection: nothing for
\* an empty list; pool.connect(); one INSERT when the loop has ended without
\* throwing; release in the finally block.
CallOps(es, outcome, values) ==
    IF es = <<>> THEN <<>>
    ELSE IF outcome = "connectFail" THEN <<"connect">>
    ELSE IF values = "throw" THEN <<"connect", "release">>
    ELSE <<"connect", "insert", "release">>

\* OutboxEventBus.publish(events) on a Pool. An empty list returns ok at
\* once. pool.connect() failing rejects (getClient is called before the try
\* block); an event without aggregate id, or serializeEvent or the INSERT
\* failing (outcome "insertFail"), gives a failure Result; the connection is
\* released in the finally block.
BusPublish(es, outcome) ==
    /\ LET values == BuildValues(es, <<>>)
           res == IF es = <<>> THEN "ok"
                  ELSE IF outcome = "connectFail" THEN "rejected"
                  ELSE IF values = "throw" \/ outcome = "insertFail" THEN "fail"
                  ELSE "ok"
       IN /\ es = <<>> => outcome = "ok"
          /\ outcome # "ok" => nFail < MaxFail
          /\ nFail' = IF outcome # "ok" THEN nFail + 1 ELSE nFail
          /\ busCall' = [events |-> es, result |-> res,
                          error |-> IF res = "fail" THEN "infra" ELSE "none",
                          ops |-> CallOps(es, outcome, values)]
          /\ IF res = "ok" /\ es # <<>>
             THEN /\ nextId + Len(values) - 1 <= MaxRows
                  /\ clock' = clock + 1
                  /\ outbox' = InsertValues(outbox, nextId, values, clock')
                  /\ nextId' = nextId + Len(values)
             ELSE UNCHANGED <<outbox, clock, nextId>>
    /\ UNCHANGED <<rowLock, dispVars, leased, orders, tx, uow, uc, dom, mem, admVars>>

\* --------------------------------------------------------- OutboxDispatcher
\* Locks of transaction owner i are dropped (COMMIT, ROLLBACK).
Release(lk, i) == [r \in DOMAIN lk |-> IF lk[r] = i THEN "none" ELSE lk[r]]

Acquire(lk, i, rows) == [r \in DOMAIN lk |-> IF r \in rows THEN i ELSE lk[r]]

\* processOutbox() without the single-flight guard.
EnterCycleNoGuard(i, st) ==
    /\ isProcessing' = [isProcessing EXCEPT ![i] = TRUE]
    /\ stats' = [st EXCEPT ![i].lastRun = clock]
    /\ pc' = [pc EXCEPT ![i] = "fetch"]
    /\ inFlight' = [inFlight EXCEPT ![i] = @ + 1]

\* The synchronous head of processOutbox(): return at once when a cycle is in
\* flight, else set the flag and lastRun and go on to fetchUnpublishedEvents.
\* st is the stats record the caller has reached.
EnterCycle(i, st) ==
    IF isProcessing[i]
    THEN /\ stats' = st
         /\ UNCHANGED <<pc, isProcessing, inFlight>>
    ELSE /\ isProcessing' = [isProcessing EXCEPT ![i] = TRUE]
         /\ stats' = [st EXCEPT ![i].lastRun = clock]
         /\ pc' = [pc EXCEPT ![i] = "fetch"]
         /\ inFlight' = [inFlight EXCEPT ![i] = @ + 1]

\* finally { this.isProcessing = false }
LeaveCycle(i) ==
    /\ isProcessing' = [isProcessing EXCEPT ![i] = FALSE]
    /\ pc' = [pc EXCEPT ![i] = "idle"]
    /\ batch' = [batch EXCEPT ![i] = <<>>]
    /\ inFlight' = [inFlight EXCEPT ![i] = @ - 1]

\* The catch block counting the failed batch as processed.
CatchCycleCountsProcessed(i) ==
    /\ stats' = [stats EXCEPT ![i].totalFailed = @ + 1,
                              ![i].totalProcessed = @ + Len(batch[i])]
    /\ LeaveCycle(i)

\* The catch block without the finally: the single-flight flag stays set.
CatchCycleKeepsFlag(i) ==
    /\ stats' = [stats EXCEPT ![i].totalFailed = @ + 1]
    /\ pc' = [pc EXCEPT ![i] = "idle"]
    /\ batch' = [batch EXCEPT ![i] = <<>>]
    /\ inFlight' = [inFlight EXCEPT ![i] = @ - 1]
    /\ UNCHANGED isProcessing

\* catch (error) { this.stats.totalFailed++ } finally { ... }
CatchCycle(i) ==
    /\ stats' = [stats EXCEPT ![i].totalFailed = @ + 1]
    /\ LeaveCycle(i)

\* start() without its two guards.
StartNoGuard(i) ==
    /\ EnterCycle(i, [stats EXCEPT ![i].isRunning = TRUE])
    /\ startSkipped' = [startSkipped EXCEPT ![i] = isProcessing[i]]
    /\ intervalId' = [intervalId EXCEPT ![i] = TRUE]
    /\ timers' = [timers EXCEPT ![i] = @ + 1]
    /\ UNCHANGED <<appVars, dbVars, config, batch, markTs, pubLog, nFail, sd, leased>>

\* start()
Start(i) ==
    /\ IF intervalId[i] \/ ~config.enabled
       THEN UNCHANGED <<pc, isProcessing, intervalId, stats, timers, inFlight,
                        startSkipped>>
       ELSE /\ EnterCycle(i, [stats EXCEPT ![i].isRunning = TRUE])
            /\ startSkipped' = [startSkipped EXCEPT ![i] = isProcessing[i]]
            /\ intervalId' = [intervalId EXCEPT ![i] = TRUE]
            /\ timers' = [timers EXCEPT ![i] = @ + 1]
    /\ UNCHANGED <<appVars, dbVars, config, batch, markTs, pubLog, nFail, sd, leased>>

\* stop() forgetting the timer handle without clearInterval.
StopTimerNoClear(i) ==
    IF intervalId[i]
    THEN /\ intervalId' = [intervalId EXCEPT ![i] = FALSE]
         /\ stats' = [stats EXCEPT ![i].isRunning = FALSE]
         /\ UNCHANGED timers
    ELSE UNCHANGED <<timers, intervalId, stats>>

\* stop() leaving stats.isRunning as it is.
StopTimerKeepsRunning(i) ==
    IF intervalId[i]
    THEN /\ timers' = [timers EXCEPT ![i] = @ - 1]
         /\ intervalId' = [intervalId EXCEPT ![i] = FALSE]
         /\ UNCHANGED stats
    ELSE UNCHANGED <<timers, intervalId, stats>>

\* stop(): clearInterval(this.intervalId), intervalId = null, isRunning = false
StopTimer(i) ==
    IF intervalId[i]
    THEN /\ timers' = [timers EXCEPT ![i] = @ - 1]
         /\ intervalId' = [intervalId EXCEPT ![i] = FALSE]
         /\ stats' = [stats EXCEPT ![i].isRunning = FALSE]
    ELSE UNCHANGED <<timers, intervalId, stats>>

Stop(i) ==
    /\ StopTimer(i)
    /\ UNCHANGED <<appVars, dbVars, config, pc, isProcessing, batch, markTs, pubLog, nFail,
                   inFlight, sd, startSkipped, leased>>

\* shutdown() returning although a poll cycle is still in flight.
ShutdownReturnNoWait(i) ==
    /\ sd[i] = "waiting"
    /\ sd' = [sd EXCEPT ![i] = "done"]
    /\ UNCHANGED <<appVars, dbVars, config, pc, isProcessing, intervalId, stats, batch,
                   markTs, pubLog, nFail, inFlight, timers, startSkipped, leased>>

\* shutdown(): stop(), then the wait loop begins
Shutdown(i) ==
    /\ sd[i] # "waiting"
    /\ StopTimer(i)
    /\ sd' = [sd EXCEPT ![i] = "waiting"]
    /\ UNCHANGED <<appVars, dbVars, config, pc, isProcessing, batch, markTs, pubLog, nFail,
                   inFlight, startSkipped, leased>>

\* shutdown(): while (this.isProcessing) { await sleep(100) } has ended, the
\* promise resolves
ShutdownReturn(i) ==
    /\ sd[i] = "waiting"
    /\ ~isProcessing[i]
    /\ sd' = [sd EXCEPT ![i] = "done"]
    /\ UNCHANGED <<appVars, dbVars, config, pc, isProcessing, intervalId, stats, batch,
                   markTs, pubLog, nFail, inFlight, timers, startSkipped, leased>>

\* The setInterval callback: processOutbox()
TimerFire(i) ==
    /\ timers[i] > 0
    /\ EnterCycle(i, stats)
    /\ UNCHANGED <<appVars, dbVars, config, intervalId, batch, markTs, pubLog, nFail,
                   lifeVars, leased>>

\* processOutbox() called by any of its callers (the host application,
\* start(), the timer callback)
ProcessOutbox(i) ==
    /\ EnterCycle(i, stats)
    /\ UNCHANGED <<appVars, dbVars, config, intervalId, batch, markTs, pubLog, nFail,
                   lifeVars, leased>>

\* fetchUnpublishedEvents: pool.connect() (served while the Pool has a free
\* connection); BEGIN; SELECT ... WHERE published_at IS NULL
\* ORDER BY created_at ASC LIMIT batchSize FOR UPDATE SKIP LOCKED
FetchSelect(i) ==
    /\ pc[i] = "fetch"
    /\ leased < poolMax
    /\ \E s \in OrderedLimit(outbox, Unlocked(rowLock, Pending(outbox)), config.batchSize) :
          /\ batch' = [batch EXCEPT ![i] = s]
          /\ rowLock' = Acquire(rowLock, i, Range(s))
    /\ pc' = [pc EXCEPT ![i] = "fetchCommit"]
    /\ leased' = leased + 1
    /\ UNCHANGED <<appVars, outbox, clock, nextId, config, isProcessing, intervalId, stats,
                   markTs, pubLog, nFail, inFlight, lifeVars>>

\* fetchUnpublishedEvents: COMMIT; release; return result.rows. Back in
\* processOutbox: if (events.length === 0) return.
FetchCommit(i) ==
    /\ pc[i] = "fetchCommit"
    /\ rowLock' = Release(rowLock, i)
    /\ IF batch[i] = <<>>
       THEN LeaveCycle(i)
       ELSE /\ pc' = [pc EXCEPT ![i] = "publish"]
            /\ UNCHANGED <<isProcessing, batch, inFlight>>
    /\ leased' = leased - 1
    /\ UNCHANGED <<appVars, outbox, clock, nextId, config, intervalId, stats, markTs,
                   pubLog, nFail, lifeVars>>

\* The failure of fetchUnpublishedEvents escaping processOutbox: not counted,
\* the single-flight flag left set.
FetchFailUncaught(i) ==
    /\ pc[i] \in {"fetch", "fetchCommit"}
    /\ nFail < MaxFail
    /\ nFail' = nFail + 1
    /\ rowLock' = Release(rowLock, i)
    /\ leased' = IF pc[i] = "fetchCommit" THEN leased - 1 ELSE leased
    /\ pc' = [pc EXCEPT ![i] = "idle"]
    /\ batch' = [batch EXCEPT ![i] = <<>>]
    /\ inFlight' = [inFlight EXCEPT ![i] = @ - 1]
    /\ UNCHANGED <<appVars, outbox, clock, nextId, config, intervalId, markTs, pubLog,
                   lifeVars, isProcessing, stats>>

\* pool.connect, BEGIN, the SELECT or COMMIT fails: ROLLBACK, rethrow, caught in
\* processOutbox.
FetchFail(i) ==
    /\ pc[i] \in {"fetch", "fetchCommit"}
    /\ nFail < MaxFail
    /\ nFail' = nFail + 1
    /\ rowLock' = Release(rowLock, i)
    /\ leased' = IF pc[i] = "fetchCommit" THEN leased - 1 ELSE leased
    /\ CatchCycle(i)
    /\ UNCHANGED <<appVars, outbox, clock, nextId, config, intervalId, markTs, pubLog,
                   lifeVars>>

\* publishEvents(events): the publisher returns.
PublishOk(i) ==
    /\ pc[i] = "publish"
    /\ pubLog' = Append(pubLog, [inst |-> i, ids |-> batch[i], ok |-> TRUE])
    /\ pc' = [pc EXCEPT ![i] = "mark"]
    /\ UNCHANGED <<appVars, dbVars, config, isProcessing, intervalId, stats, batch, markTs,
                   nFail, inFlight, lifeVars, leased>>

\* publishEvents(events): the publisher throws.
PublishFail(i) ==
    /\ pc[i] = "publish"
    /\ nFail < MaxFail
    /\ nFail' = nFail + 1
    /\ pubLog' = Append(pubLog, [inst |-> i, ids |-> batch[i], ok |-> FALSE])
    /\ CatchCycle(i)
    /\ UNCHANGED <<appVars, dbVars, config, intervalId, markTs, lifeVars, leased>>

\* markAsPublished: pool.connect() (served while the Pool has a free
\* connection); BEGIN; UPDATE outbox SET published_at = NOW() WHERE id IN
\* (...). The UPDATE waits for rows locked by another transaction and then
\* holds their locks; NOW() is the time of this transaction.
MarkUpdate(i) ==
    /\ pc[i] = "mark"
    /\ leased < poolMax
    /\ \A r \in Range(batch[i]) \cap Ids(outbox) : rowLock[r] \in {"none", i}
    /\ markTs' = [markTs EXCEPT ![i] = clock]
    /\ rowLock' = Acquire(rowLock, i, Range(batch[i]) \cap Ids(outbox))
    /\ pc' = [pc EXCEPT ![i] = "markCommit"]
    /\ leased' = leased + 1
    /\ UNCHANGED <<appVars, outbox, clock, nextId, config, isProcessing, intervalId, stats,
                   batch, pubLog, nFail, inFlight, lifeVars>>

\* The rows of table tbl named in ids get published_at = ts.
SetPublished(tbl, ids, ts) ==
    [r \in Ids(tbl) |-> IF r \in ids THEN [tbl[r] EXCEPT !.published_at = ts]
                        ELSE tbl[r]]

\* markAsPublished: COMMIT; then totalProcessed and totalPublished grow by
\* events.length and the cycle ends.
MarkCommit(i) ==
    /\ pc[i] = "markCommit"
    /\ outbox' = SetPublished(outbox, Range(batch[i]), markTs[i])
    /\ rowLock' = Release(rowLock, i)
    /\ stats' = [stats EXCEPT ![i].totalProcessed = @ + Len(batch[i]),
                              ![i].totalPublished = @ + Len(batch[i])]
    /\ markTs' = [markTs EXCEPT ![i] = NULL]
    /\ LeaveCycle(i)
    /\ leased' = leased - 1
    /\ UNCHANGED <<appVars, clock, nextId, config, intervalId, pubLog, nFail, lifeVars>>

\* pool.connect, BEGIN, the UPDATE or COMMIT of markAsPublished fails:
\* ROLLBACK, rethrow, caught in processOutbox.
MarkFail(i) ==
    /\ pc[i] \in {"mark", "markCommit"}
    /\ nFail < MaxFail
    /\ nFail' = nFail + 1
    /\ rowLock' = Release(rowLock, i)
    /\ markTs' = [markTs EXCEPT ![i] = NULL]
    /\ leased' = IF pc[i] = "markCommit" THEN leased - 1 ELSE leased
    /\ CatchCycle(i)
    /\ UNCHANGED <<appVars, outbox, clock, nextId, config, intervalId, pubLog, lifeVars>>

Next ==
    \/ \E a \in Aggs, n \in 1..MaxEvents : OutboxEventBusPublish(a, n)
    \/ \E i \in Insts :
          \/ ProcessOutbox(i)
          \/ FetchSelect(i)
          \/ FetchCommit(i)
          \/ FetchFail(i)
          \/ PublishOk(i)
          \/ PublishFail(i)
          \/ MarkUpdate(i)
          \/ MarkCommit(i)
          \/ MarkFail(i)

Spec == Init /\ [][Next]_vars

\* The dispatchers as the worker process runs them: started by start(), driven
\* by the timer and never stopped. Every awaited call returns (weak fairness
\* of the steps of a cycle), the timer keeps firing, and publisher and
\* database fail at most MaxFail times.
NextLive ==
    \/ \E a \in Aggs, n \in 1..MaxEvents : OutboxEventBusPublish(a, n)
    \/ \E i \in Insts :
          \/ Start(i)
          \/ TimerFire(i)
          \/ FetchSelect(i)
          \/ FetchCommit(i)
          \/ FetchFail(i)
          \/ PublishOk(i)
          \/ PublishFail(i)
          \/ MarkUpdate(i)
          \/ MarkCommit(i)
          \/ MarkFail(i)

Fairness ==
    \A i \in Insts :
        /\ WF_vars(TimerFire(i))
        /\ WF_vars(FetchSelect(i))
        /\ WF_vars(FetchCommit(i))
        /\ WF_vars(PublishOk(i))
        /\ WF_vars(MarkUpdate(i))
        /\ WF_vars(MarkCommit(i))

FairSpec == Init /\ [][NextLive]_vars /\ Fairness

\* The whole life of a dispatcher: start(), stop(), shutdown(), the timer
\* callback and processOutbox() called by the host application, in any order.
\* The instances share no state of their life cycle; LifeInsts are the
\* instances whose life is followed.
LifeInsts == {"d1"}

NextLife ==
    \/ \E a \in Aggs, n \in 1..MaxEvents : OutboxEventBusPublish(a, n)
    \/ \E i \in LifeInsts :
          \/ Start(i)
          \/ Stop(i)
          \/ Shutdown(i)
          \/ ShutdownReturn(i)
          \/ TimerFire(i)
          \/ ProcessOutbox(i)
          \/ FetchSelect(i)
          \/ FetchCommit(i)
          \/ FetchFail(i)
          \/ PublishOk(i)
          \/ PublishFail(i)
          \/ MarkUpdate(i)
          \/ MarkCommit(i)
          \/ MarkFail(i)

SpecLife == Init /\ [][NextLife]_vars

\* ------------------------------------------------- buildContainer.cleanup
\* The PostgreSQL wiring: one Pool shared by the unit of work, the repository,
\* the event bus and the dispatcher, which exists when the outbox is enabled.
cleanupRest == <<dbVars, config, pc, isProcessing, batch, markTs, pubLog, nFail, inFlight,
                 startSkipped, leased, orders, tx, uow, uc, busCall, dom, mem, retry,
                 poolMax, repo>>

\* pool.end(): the first call closes the Pool, a later call on the same Pool
\* rejects ("Called end on pool more than once").
PoolEnd(c) ==
    IF c.ends = 0
    THEN [c EXCEPT !.ends = 1]
    ELSE [c EXCEPT !.ends = @ + 1, !.pc = "done", !.result = "rejected"]

\* buildContainer: if (outboxConfig.enabled) { new OutboxDispatcher(...).start() }
ContainerStart(i) ==
    /\ cleanup.pc = "none"
    /\ Start(i)

\* cleanup(): if (outboxDispatcher) await outboxDispatcher.shutdown() — stop()
\* and the wait loop begins. Without a dispatcher the call goes on to the
\* unit of work.
CleanupBegin(i) ==
    /\ cleanup.pc = "none"
    /\ IF config.enabled
       THEN /\ sd[i] # "waiting"
            /\ StopTimer(i)
            /\ sd' = [sd EXCEPT ![i] = "waiting"]
            /\ cleanup' = [cleanup EXCEPT !.pc = "shutdown"]
       ELSE /\ cleanup' = [cleanup EXCEPT !.pc = "closeUow"]
            /\ UNCHANGED <<sd, timers, intervalId, stats>>
    /\ UNCHANGED cleanupRest

\* shutdown() has returned: the call goes on to the unit of work.
CleanupShutdownReturned(i) ==
    /\ cleanup.pc = "shutdown"
    /\ sd[i] = "done"
    /\ cleanup' = [cleanup EXCEPT !.pc = "closeUow"]
    /\ UNCHANGED <<cleanupRest, sd, timers, intervalId, stats>>

\* if (unitOfWork) await unitOfWork.close(): PostgresUnitOfWork.close() is
\* this.pool.end() on the shared Pool.
CleanupCloseUow ==
    /\ cleanup.pc = "closeUow"
    /\ cleanup' = [PoolEnd(cleanup) EXCEPT !.pc = IF @ = "done" THEN @ ELSE "endPool"]
    /\ UNCHANGED <<cleanupRest, sd, timers, intervalId, stats>>

\* if (postgresPool) await postgresPool.end(); then the call resolves. When
\* end() rejects, cleanup() rejects.
CleanupEndPool ==
    /\ cleanup.pc = "endPool"
    /\ cleanup' = [PoolEnd(cleanup) EXCEPT
                      !.pc = "done",
                      !.result = IF @ = "rejected" THEN @ ELSE "resolved"]
    /\ UNCHANGED <<cleanupRest, sd, timers, intervalId, stats>>

\* The application: the container starts the dispatcher, the timer polls,
\* requests write events, cleanup() runs once at the end.
NextCleanup ==
    \/ \E a \in Aggs, n \in 1..MaxEvents : OutboxEventBusPublish(a, n)
    \/ \E i \in LifeInsts :
          \/ ContainerStart(i)
          \/ TimerFire(i)
          \/ FetchSelect(i)
          \/ FetchCommit(i)
          \/ FetchFail(i)
          \/ PublishOk(i)
          \/ PublishFail(i)
          \/ MarkUpdate(i)
          \/ MarkCommit(i)
          \/ MarkFail(i)
          \/ CleanupBegin(i)
          \/ ShutdownReturn(i)
          \/ CleanupShutdownReturned(i)
    \/ CleanupCloseUow
    \/ CleanupEndPool

SpecCleanup == Init /\ [][NextCleanup]_vars

\* Timestamps a caller can pass as cutoff (Date.now() - maxAge, now - days).
Cutoffs == 1..(clock + 1)

\* retryFailedEvents(maxAge): connect; SELECT the pending rows older than the
\* cutoff (no lock); publishEvents; markAsPublished on a second connection
\* (its UPDATE waits for locked rows); finally release. A failure of the
\* publisher or of markAsPublished leaves the method as a rejection.
RetryFailedEvents(i, cutoff, outcome) ==
    /\ \E s \in OrderedLimit(outbox,
                             {r \in Pending(outbox) : outbox[r].created_at < cutoff},
                             config.batchSize) :
          /\ s # <<>>
          /\ outcome # "ok" => nFail < MaxFail
          /\ nFail' = IF outcome # "ok" THEN nFail + 1 ELSE nFail
          /\ pubLog' = Append(pubLog, [inst |-> i, ids |-> s,
                                       ok |-> outcome # "publishFail"])
          /\ IF outcome = "ok"
             THEN /\ \A r \in Range(s) : rowLock[r] = "none"
                  /\ outbox' = SetPublished(outbox, Range(s), clock)
             ELSE UNCHANGED outbox
    /\ UNCHANGED <<appVars, rowLock, clock, nextId, config, pc, isProcessing, intervalId,
                   stats, batch, markTs, inFlight, lifeVars, leased>>

\* cleanupPublishedEvents with a DELETE that looks at created_at only.
CleanupByCreatedAt(i, cutoff, ok) ==
    /\ LET del == {r \in Ids(outbox) : outbox[r].created_at < cutoff}
       IN IF ok
          THEN /\ \A r \in del : rowLock[r] = "none"
               /\ outbox' = [r \in Ids(outbox) \ del |-> outbox[r]]
               /\ UNCHANGED nFail
          ELSE /\ nFail < MaxFail
               /\ nFail' = nFail + 1
               /\ UNCHANGED outbox
    /\ UNCHANGED <<appVars, rowLock, clock, nextId, config, pc, isProcessing, intervalId,
                   stats, batch, markTs, pubLog, inFlight, lifeVars, leased>>

\* cleanupPublishedEvents(olderThanDays): connect; DELETE the rows published
\* before the cutoff (waiting for locked rows); finally release.
CleanupPublishedEvents(i, cutoff, ok) ==
    /\ LET del == {r \in Ids(outbox) : /\ outbox[r].published_at # NULL
                                       /\ outbox[r].published_at < cutoff}
       IN IF ok
          THEN /\ \A r \in del : rowLock[r] = "none"
               /\ outbox' = [r \in Ids(outbox) \ del |-> outbox[r]]
               /\ UNCHANGED nFail
          ELSE /\ nFail < MaxFail
               /\ nFail' = nFail + 1
               /\ UNCHANGED outbox
    /\ UNCHANGED <<appVars, rowLock, clock, nextId, config, pc, isProcessing, intervalId,
                   stats, batch, markTs, pubLog, inFlight, lifeVars, leased>>

\* getOutboxStats(): connect; SELECT COUNT(*) ...; finally release. It writes
\* nothing; a failing query rejects.
GetOutboxStats(i, ok) ==
    /\ IF ok THEN UNCHANGED nFail
       ELSE nFail < MaxFail /\ nFail' = nFail + 1
    /\ UNCHANGED <<appVars, dbVars, dispVars, leased>>

\* checkPostgresConnection(pool): connect, SELECT NOW(), release, all inside
\* try; the catch block returns false without releasing.
CheckPostgresConnection(outcome) ==
    /\ outcome # "ok" => nFail < MaxFail
    /\ nFail' = IF outcome # "ok" THEN nFail + 1 ELSE nFail
    /\ leased' = IF outcome = "queryFail" THEN leased + 1 ELSE leased
    /\ UNCHANGED <<appVars, dbVars, dispVars>>

\* The dispatcher instance followed when the users of the Pool run side by
\* side.
PoolInsts == {"d1"}

\* ------------------------------------------- retryFailedEvents, in steps
\* The lock owner of the markAsPublished transaction of a retry call.
RetryTx(i) == "retry-" \o i

\* The WHERE clause of retryFailedEvents without the condition on the age.
StuckOfAnyAge(tbl, cutoff) == Pending(tbl)

\* WHERE published_at IS NULL AND created_at < cutoff
Stuck(tbl, cutoff) == {r \in Pending(tbl) : tbl[r].created_at < cutoff}

restOfRetry == <<orders, tx, uow, uc, busCall, dom, mem, config, pc, isProcessing, intervalId, stats, batch, markTs,
                 inFlight, lifeVars, poolMax, cleanup, repo>>

\* retryFailedEvents(maxAge): pool.connect(); SELECT ... ORDER BY created_at
\* ASC LIMIT batchSize (no row lock). Without rows the call releases the
\* connection and returns 0.
RetrySelect(i, cutoff) ==
    /\ retry[i].pc = "idle"
    /\ leased < poolMax
    /\ \E s \in OrderedLimit(outbox, Stuck(outbox, cutoff), config.batchSize) :
          IF s = <<>>
          THEN /\ retry' = [retry EXCEPT ![i] = [NoRetry EXCEPT !.status = "returned",
                                                               !.cutoff = cutoff]]
               /\ UNCHANGED leased
          ELSE /\ retry' = [retry EXCEPT ![i] = [pc |-> "publish", rows |-> s,
                                                 cutoff |-> cutoff, held |-> 1,
                                                 markTs |-> 0, status |-> "none", count |-> 0]]
               /\ leased' = leased + 1
    /\ UNCHANGED <<restOfRetry, dbVars, pubLog, nFail>>

\* await this.publishEvents(result.rows): the publisher returns; the call goes
\* on to markAsPublished, which asks the Pool for a connection.
RetryPublishOk(i) ==
    /\ retry[i].pc = "publish"
    /\ pubLog' = Append(pubLog, [inst |-> i, ids |-> retry[i].rows, ok |-> TRUE])
    /\ retry' = [retry EXCEPT ![i].pc = "connect"]
    /\ UNCHANGED <<restOfRetry, dbVars, nFail, leased>>

\* The publisher throws: finally client.release(); the call rejects.
RetryPublishFail(i) ==
    /\ retry[i].pc = "publish"
    /\ nFail < MaxFail
    /\ nFail' = nFail + 1
    /\ pubLog' = Append(pubLog, [inst |-> i, ids |-> retry[i].rows, ok |-> FALSE])
    /\ retry' = [retry EXCEPT ![i] = [NoRetry EXCEPT !.status = "rejected",
                                                    !.cutoff = retry[i].cutoff]]
    /\ leased' = leased - retry[i].held
    /\ UNCHANGED <<restOfRetry, dbVars>>

\* markAsPublished called by retryFailedEvents: pool.connect() is served,
\* BEGIN, UPDATE (waiting for rows locked by another transaction).
RetryMarkUpdate(i) ==
    /\ retry[i].pc = "connect"
    /\ leased < poolMax
    /\ \A r \in Range(retry[i].rows) \cap Ids(outbox) : rowLock[r] = "none"
    /\ rowLock' = Acquire(rowLock, RetryTx(i), Range(retry[i].rows) \cap Ids(outbox))
    /\ retry' = [retry EXCEPT ![i].pc = "markCommit", ![i].held = @ + 1,
                               ![i].markTs = clock]
    /\ leased' = leased + 1
    /\ UNCHANGED <<restOfRetry, outbox, clock, nextId, pubLog, nFail>>

\* The Pool has no free connection within connectionTimeoutMillis:
\* pool.connect() of markAsPublished rejects, finally client.release() in
\* retryFailedEvents, the call rejects. One of the at most MaxFail failures.
RetryMarkTimeout(i) ==
    /\ retry[i].pc = "connect"
    /\ leased >= poolMax
    /\ nFail < MaxFail
    /\ nFail' = nFail + 1
    /\ retry' = [retry EXCEPT ![i] = [NoRetry EXCEPT !.status = "rejected",
                                                    !.cutoff = retry[i].cutoff]]
    /\ leased' = leased - retry[i].held
    /\ UNCHANGED <<restOfRetry, dbVars, pubLog>>

\* markAsPublished: COMMIT, release; retryFailedEvents returns
\* result.rows.length and releases its own connection.
RetryMarkCommit(i) ==
    /\ retry[i].pc = "markCommit"
    /\ outbox' = SetPublished(outbox, Range(retry[i].rows), retry[i].markTs)
    /\ rowLock' = Release(rowLock, RetryTx(i))
    /\ retry' = [retry EXCEPT ![i] = [NoRetry EXCEPT !.status = "returned",
                                                    !.count = Len(retry[i].rows),
                                                    !.cutoff = retry[i].cutoff]]
    /\ leased' = leased - retry[i].held
    /\ UNCHANGED <<restOfRetry, clock, nextId, pubLog, nFail>>

\* The UPDATE or COMMIT of markAsPublished fails: ROLLBACK, both connections
\* released, the call rejects.
RetryMarkFail(i) ==
    /\ retry[i].pc = "markCommit"
    /\ nFail < MaxFail
    /\ nFail' = nFail + 1
    /\ rowLock' = Release(rowLock, RetryTx(i))
    /\ retry' = [retry EXCEPT ![i] = [NoRetry EXCEPT !.status = "rejected",
                                                    !.cutoff = retry[i].cutoff]]
    /\ leased' = leased - retry[i].held
    /\ UNCHANGED <<restOfRetry, outbox, clock, nextId, pubLog>>

\* One dispatcher on a Pool of a small size: its poll cycle and its
\* retryFailedEvents calls, with rows written by the event bus.
NextRetry ==
    \/ \E a \in Aggs, n \in 1..MaxEvents : OutboxEventBusPublish(a, n)
    \/ \E i \in PoolInsts :
          \/ ProcessOutbox(i)
          \/ FetchSelect(i)
          \/ FetchCommit(i)
          \/ FetchFail(i)
          \/ PublishOk(i)
          \/ PublishFail(i)
          \/ MarkUpdate(i)
          \/ MarkCommit(i)
          \/ MarkFail(i)
          \/ \E c \in Cutoffs : RetrySelect(i, c)
          \/ RetryPublishOk(i)
          \/ RetryPublishFail(i)
          \/ RetryMarkUpdate(i)
          \/ RetryMarkTimeout(i)
          \/ RetryMarkCommit(i)
          \/ RetryMarkFail(i)

SpecRetry == InitSmallPool /\ [][NextRetry]_vars

\* The aggregate alone, driven by a caller.
NextOrder ==
    \/ \E id \in OrderIds, currency \in CurrencyInputs : CallCreate(id, currency)
    \/ \E sku \in Skus, quantity \in Quantities, unitPrice \in Prices :
          CallAddLine(sku, quantity, unitPrice)
    \/ CallGetEvents
    \/ CallClearEvents
    \/ CallerEditsSnapshot

SpecOrder == Init /\ [][NextOrder]_vars

\* ------------------------------------------- use cases, in-memory wiring
\* InMemoryOrderRepository.nextId: `ORD-${String(sequence).padStart(5, '0')}`
PadStart5(str, n) ==
    IF n < 10 THEN "0000" \o str
    ELSE IF n < 100 THEN "000" \o str
    ELSE IF n < 1000 THEN "00" \o str
    ELSE IF n < 10000 THEN "0" \o str
    ELSE str

NextOrderId(sequence) == "ORD-" \o PadStart5(ToString(sequence), sequence)

\* dto.sku, dto.quantity and dto.orderId of the requests.
SkuInputs == {"BOOK001", "BOOK002", "invalid", "UNKNOWN999"}

QuantityInputs == {0, 2, 1000, 1001}

OrderIdInputs == {NextOrderId(n) : n \in 1..MaxOrders} \cup {"NON-EXISTENT"}

\* SKU.create(value): /^[A-Z0-9]{3,10}$/ over the strings above
SkuCreate(value) ==
    IF value \in {"BOOK001", "BOOK002", "UNKNOWN999"}
    THEN [threw |-> FALSE, sku |-> value]
    ELSE [threw |-> TRUE]

\* Quantity.create without the upper limit.
QuantityCreateNoMax(value) ==
    IF value <= 0 THEN [threw |-> TRUE]
    ELSE [threw |-> FALSE, quantity |-> value]

\* Quantity.create(value), for integers
QuantityCreate(value) ==
    IF value <= 0 \/ value > 1000
    THEN [threw |-> TRUE]
    ELSE [threw |-> FALSE, quantity |-> value]

\* StaticPricingService.prices, in thousandths
StaticPrices == [x \in {"BOOK001", "BOOK002"} |-> IF x = "BOOK001" THEN 29990 ELSE 39990]

\* pricingService.getCurrentPrice(sku, currency)
GetCurrentPrice(sku, currency) ==
    IF sku \notin DOMAIN StaticPrices THEN [ok |-> FALSE, type |-> "notFound"]
    ELSE LET m == MoneyCreate(StaticPrices[sku], currency)
         IN IF m.threw THEN [ok |-> FALSE, type |-> "validation"]
            ELSE [ok |-> TRUE, value |-> m.money]

\* orderRepository.save(order): this.orders.set(order.getId(), order)
MemSave(tbl, obj) ==
    [x \in DOMAIN tbl \cup {obj.order.id} |-> IF x = obj.order.id THEN obj ELSE tbl[x]]

Failure(dto, op, type) == [op |-> op, dto |-> dto, ok |-> FALSE, type |-> type]

memRest == <<dbVars, dispVars, nFail, leased, orders, tx, uow, uc, busCall, dom, admVars>>

\* CreateOrderUseCase.execute(dto) on the in-memory adapters: the currency
\* check, nextId, Order.create, save, publish of a copy of the events,
\* clearEvents.
ExecuteCreateOrder(dto) ==
    /\ mem.sequence <= MaxOrders
    /\ IF ~IsCurrencyCode(dto.currency)
       THEN mem' = [mem EXCEPT !.last = Failure(dto, "createOrder", "validation")]
       ELSE LET id == NextOrderId(mem.sequence)
                r == Create(id, dto.currency)
            IN IF r.threw
               THEN mem' = [mem EXCEPT !.sequence = @ + 1,
                                       !.last = Failure(dto, "createOrder", "validation")]
               ELSE mem' = [mem EXCEPT
                               !.sequence = @ + 1,
                               !.orders = MemSave(@, [order |-> r.order,
                                                      events |-> ClearEvents(r.events)]),
                               !.published = @ \o r.events,
                               !.last = [op |-> "createOrder", dto |-> dto, ok |-> TRUE,
                                         type |-> "none"]]
    /\ UNCHANGED memRest

\* AddItemOrderUseCase.execute(dto) on the in-memory adapters. findById
\* hands out the stored object itself, so addLine writes to the stored
\* order; save and publish do not fail.
ExecuteAddItem(dto) ==
    /\ mem.calls < MaxCalls
    /\ LET sku == SkuCreate(dto.sku)
           quantity == QuantityCreate(dto.quantity)
           out ==
              IF sku.threw \/ quantity.threw THEN Failure(dto, "addItem", "validation")
              ELSE IF dto.orderId \notin DOMAIN mem.orders
                   THEN Failure(dto, "addItem", "notFound")
              ELSE LET obj == mem.orders[dto.orderId]
                       price == GetCurrentPrice(sku.sku, obj.order.currency)
                   IN IF ~price.ok THEN Failure(dto, "addItem", price.type)
                      ELSE LET r == AddLine(obj.order, obj.events, sku.sku,
                                            quantity.quantity, price.value)
                           IN IF r.threw
                              THEN Failure(dto, "addItem", "validation")
                                      @@ [obj |-> [order |-> r.order, events |-> r.events]]
                              ELSE [op |-> "addItem", dto |-> dto, ok |-> TRUE,
                                    type |-> "none",
                                    obj |-> [order |-> r.order, events |-> r.events]]
       IN mem' = [mem EXCEPT
                     !.calls = @ + 1,
                     !.orders = IF "obj" \in DOMAIN out
                                THEN MemSave(@, IF out.ok
                                                THEN [out.obj EXCEPT !.events = ClearEvents(@)]
                                                ELSE out.obj)
                                ELSE @,
                     !.published = IF out.ok THEN @ \o out.obj.events ELSE @,
                     !.last = [op |-> out.op, dto |-> out.dto, ok |-> out.ok,
                               type |-> out.type]]
    /\ UNCHANGED memRest

NextMem ==
    \/ \E currency \in {"EUR", "eur"} : ExecuteCreateOrder([currency |-> currency])
    \/ \E dto \in [orderId : OrderIdInputs, sku : SkuInputs, quantity : QuantityInputs] :
          ExecuteAddItem(dto)

SpecMem == Init /\ [][NextMem]_vars

\* ------------------------------------- PostgresOrderRepository, row by row
\* upsertOrder: the row of orders written for the aggregate o.
OrderRowOf(o) ==
    [id |-> o.id, total_amount_value |-> o.total.amount,
     total_amount_currency |-> o.total.currency]

\* replaceOrderItems: the rows of order_items written for the aggregate o,
\* one per line, by one INSERT.
ItemRowsOf(o) ==
    [k \in 1..Len(o.lines) |->
        [order_id |-> o.id, sku |-> o.lines[k].sku, quantity |-> o.lines[k].quantity,
         unit_price_value |-> o.lines[k].unitPrice.amount,
         unit_price_currency |-> o.lines[k].unitPrice.currency,
         line_total_value |-> GetSubtotal(o.lines[k]).amount,
         line_total_currency |-> GetSubtotal(o.lines[k]).currency]]

\* SELECT ... FROM order_items WHERE order_id = $1 ORDER BY created_at ASC:
\* the rows of one INSERT have the same created_at, so they come in any order.
ItemRowOrders(rows) ==
    {[k \in 1..Len(rows) |-> rows[f[k]]] :
        f \in {g \in [1..Len(rows) -> 1..Len(rows)] :
                  \A a, b \in 1..Len(rows) : a # b => g[a] # g[b]}}

\* for (const itemRow of itemRows) order.addLine(SKU.create(...),
\* Quantity.create(...), Money.create(parseFloat(...), ...)), from row k on.
RECURSIVE AddItemRows(_, _, _)
AddItemRows(r, itemRows, k) ==
    IF k > Len(itemRows) \/ r.threw THEN r
    ELSE LET row == itemRows[k]
             unitPrice == MoneyCreate(row.unit_price_value, row.unit_price_currency)
         IN IF SkuCreate(row.sku).threw \/ QuantityCreate(row.quantity).threw
               \/ unitPrice.threw
            THEN [r EXCEPT !.threw = TRUE]
            ELSE AddItemRows(AddLine(r.order, r.events, row.sku, row.quantity,
                                     unitPrice.money),
                             itemRows, k + 1)

\* mapToOrder up to its loop: Order.create(orderRow.id,
\* orderRow.total_amount_currency), then addLine for every row.
MapRows(orderRow, itemRows) ==
    LET r == Create(orderRow.id, orderRow.total_amount_currency)
    IN IF r.threw THEN [threw |-> TRUE, order |-> NoAggregate, events |-> <<>>]
       ELSE AddItemRows(r, itemRows, 1)

\* mapToOrder without the clearEvents() at its end.
MapRowsKeepEvents(orderRow, itemRows) == MapRows(orderRow, itemRows)

\* mapToOrder(orderRow, itemRows): Order.create, addLine for every row,
\* order.clearEvents().
MapRowsToOrder(orderRow, itemRows) ==
    LET r == MapRows(orderRow, itemRows)
    IN IF r.threw THEN r ELSE [r EXCEPT !.events = ClearEvents(@)]

repoRest == <<dbVars, dispVars, nFail, leased, orders, tx, uow, uc, busCall, mem, retry,
              poolMax, cleanup>>

\* orderRepository.save(order): upsertOrder and replaceOrderItems commit.
RepoSave ==
    /\ dom.exists
    /\ repo' = [repo EXCEPT !.stored = TRUE,
                            !.orderRow = OrderRowOf(dom.order),
                            !.itemRows = ItemRowsOf(dom.order),
                            !.saved = dom.order]
    /\ UNCHANGED <<repoRest, dom>>

\* orderRepository.findById(id): both SELECTs, mapToOrder; an exception of
\* mapToOrder is caught and findById returns a failure.
RepoFindById ==
    /\ repo.stored
    /\ \E itemRows \in ItemRowOrders(repo.itemRows) :
          LET r == MapRowsToOrder(repo.orderRow, itemRows)
          IN repo' = IF r.threw
                     THEN [repo EXCEPT !.phase = "failed", !.order = NoAggregate,
                                       !.events = <<>>]
                     ELSE [repo EXCEPT !.phase = "loaded", !.order = r.order,
                                       !.events = r.events, !.from = repo.saved]
    /\ UNCHANGED <<repoRest, dom>>

\* AddItemOrderUseCase.execute after findById: order.addLine(sku, quantity,
\* price) on the loaded aggregate.
RepoAddLine(sku, quantity, unitPrice) ==
    /\ repo.phase = "loaded"
    /\ LET r == AddLine(repo.order, repo.events, sku, quantity, unitPrice)
       IN repo' = [repo EXCEPT !.phase = IF r.threw THEN "rejected" ELSE "added",
                               !.order = r.order, !.events = r.events]
    /\ UNCHANGED <<repoRest, dom>>

\* An aggregate built by its caller, saved, loaded again and changed.
NextRepo ==
    \/ \E id \in OrderIds, currency \in CurrencyInputs : CallCreate(id, currency)
    \/ \E sku \in Skus, quantity \in Quantities, unitPrice \in Prices :
          CallAddLine(sku, quantity, unitPrice)
    \/ RepoSave
    \/ RepoFindById
    \/ \E sku \in Skus, quantity \in Quantities, unitPrice \in Prices :
          RepoAddLine(sku, quantity, unitPrice)

SpecRepo == Init /\ [][NextRepo]_vars

\* The write side alone: publish called with any list of events.
NextBus ==
    \E es \in EventLists, outcome \in {"ok", "connectFail", "insertFail"} :
        BusPublish(es, outcome)

SpecBus == Init /\ [][NextBus]_vars

\* ------------------------------------------------------ PostgresUnitOfWork
\* The error run / query hand to the caller for a caught error: the AppError
\* itself, an InfraError for anything else.
ToAppError(e) == IF e = "AppError" THEN "AppError" ELSE "InfraError"

\* catch + finally of run(): ROLLBACK, return fail(...), client.release().
\* When the ROLLBACK itself fails the error leaves run(): the promise rejects
\* (the finally block still runs).
Caught(u, e, rbOk) ==
    [u EXCEPT !.pc = "done",
              !.stmts = Append(@, "ROLLBACK"),
              !.result = IF rbOk THEN "fail" ELSE "rejected",
              !.error = IF rbOk THEN ToAppError(e) ELSE "none",
              !.releases = @ + 1]

\* Injected failures of one attempt: the failing statement, and the ROLLBACK
\* when that fails as well.
Failures(rbOk) == IF rbOk THEN 1 ELSE 2

\* run(work): pool.connect(), BEGIN, createRepositories(client), then work
\* starts. The work function builds its OutboxEventBus on the Pool (as the
\* documented usage does) or on the transaction's client.
UowRun(mode) ==
    /\ uow.pc \in {"idle", "done"}
    /\ leased' = leased + 1
    /\ tx' = [open |-> TRUE, writes |-> <<>>, rows |-> <<>>, ts |-> clock]
    /\ uow' = [InitUow EXCEPT !.pc = "work", !.op = "run", !.stmts = <<"BEGIN">>,
                              !.pre = orders, !.bus = mode, !.acquired = 1]
    /\ UNCHANGED <<dbVars, dispVars, nFail, orders, uc, busCall, dom, mem, admVars>>

\* run(work) / query(work): pool.connect() fails. The call is outside the try
\* block: the promise rejects.
UowConnectFail(op) ==
    /\ uow.pc \in {"idle", "done"}
    /\ nFail < MaxFail
    /\ nFail' = nFail + 1
    /\ uow' = [InitUow EXCEPT !.pc = "done", !.op = op, !.result = "rejected",
                              !.pre = orders]
    /\ UNCHANGED <<dbVars, dispVars, leased, orders, tx, uc, busCall, dom, mem, admVars>>

\* run(work): BEGIN fails: catch, ROLLBACK, finally release.
UowBeginFail(rbOk) ==
    /\ uow.pc \in {"idle", "done"}
    /\ nFail + Failures(rbOk) <= MaxFail
    /\ nFail' = nFail + Failures(rbOk)
    /\ uow' = Caught([InitUow EXCEPT !.op = "run", !.stmts = <<"BEGIN">>,
                                     !.pre = orders, !.acquired = 1], "Error", rbOk)
    /\ UNCHANGED <<dbVars, dispVars, leased, orders, tx, uc, busCall, dom, mem, admVars>>

\* work: Order.create(id, currency)
WorkCreate(o) ==
    /\ uow.pc = "work"
    /\ uow.order = NoOrder
    /\ o \notin DOMAIN orders
    /\ uow' = [uow EXCEPT !.order = OrderCreate(o)]
    /\ UNCHANGED <<dbVars, dispVars, nFail, leased, orders, tx, uc, busCall, dom, mem, admVars>>

\* work: orders.findById(id) on the transaction-scoped repository finds an
\* order (the transaction sees its own writes).
WorkLoad(o) ==
    /\ uow.pc = "work"
    /\ uow.order = NoOrder
    /\ o \in DOMAIN ApplyWrites(orders, tx.writes)
    /\ uow' = [uow EXCEPT !.order = MapToOrder(o, ApplyWrites(orders, tx.writes)[o])]
    /\ UNCHANGED <<dbVars, dispVars, nFail, leased, orders, tx, uc, busCall, dom, mem, admVars>>

\* work: order.addLine(...)
WorkAddLine ==
    /\ uow.pc = "work"
    /\ uow.order # NoOrder
    /\ uow.order.lines < MaxLines
    /\ uow' = [uow EXCEPT !.order = OrderAddLine(@)]
    /\ UNCHANGED <<dbVars, dispVars, nFail, leased, orders, tx, uc, busCall, dom, mem, admVars>>

\* work: orders.save(order) on the transaction-scoped repository (PoolClient
\* mode of PostgresOrderRepository.save: no BEGIN / COMMIT of its own).
WorkSave ==
    /\ uow.pc = "work"
    /\ uow.order # NoOrder
    /\ tx' = [tx EXCEPT !.writes = SaveOrder(@, uow.order)]
    /\ uow' = [uow EXCEPT !.saved = tx'.writes]
    /\ UNCHANGED <<dbVars, dispVars, nFail, leased, orders, uc, busCall, dom, mem, admVars>>

\* getClient always taking a connection from the pool.
GetClientAlwaysConnects(conn) == "own"

\* OutboxEventBus.getClient: the PoolClient it was built on, or a connection
\* of its own taken from the Pool.
GetClient(conn) == IF conn = "client" THEN "borrowed" ELSE "own"

\* OutboxEventBus.releaseClient: release only a connection taken from the Pool.
ReleasesClient(conn) == conn # "client"

\* What publish does with connections, in order.
BusOps(conn) ==
    (IF GetClient(conn) = "own" THEN <<"connect">> ELSE <<>>)
        \o <<IF GetClient(conn) = "own" THEN "insert:own" ELSE "insert:borrowed">>
        \o (IF ReleasesClient(conn) THEN <<"release">> ELSE <<>>)

\* work: new OutboxEventBus(pool | client).publish(order.getEvents()). On a
\* connection of its own the INSERT is committed at once; on the client of
\* the unit of work it is part of the open transaction (created_at is NOW(),
\* the start of that transaction).
WorkPublish ==
    /\ uow.pc = "work"
    /\ uow.order.events # <<>>
    /\ uow.published = {}
    /\ nextId + Len(uow.order.events) - 1 <= MaxRows
    /\ nextId' = nextId + Len(uow.order.events)
    /\ uow' = [uow EXCEPT !.published = nextId..(nextId' - 1),
                          !.busOps = BusOps(uow.bus),
                          !.busLeased = leased + (IF GetClient(uow.bus) = "own"
                                                  THEN 1 ELSE 0)]
    /\ IF GetClient(uow.bus) = "own"
       THEN /\ clock' = clock + 1
            /\ outbox' = OutboxInsert(outbox, nextId, uow.order.id,
                                      uow.order.events, clock')
            /\ UNCHANGED tx
       ELSE /\ tx' = [tx EXCEPT !.rows = OutboxInsert(@, nextId, uow.order.id,
                                                      uow.order.events, tx.ts)]
            /\ UNCHANGED <<outbox, clock>>
    /\ UNCHANGED <<rowLock, dispVars, nFail, leased, orders, uc, busCall, dom, mem, admVars>>

\* The rows inserted by a transaction become visible (COMMIT).
MergeRows(tbl, rows) ==
    [r \in Ids(tbl) \cup Ids(rows) |-> IF r \in Ids(rows) THEN rows[r] ELSE tbl[r]]

\* work returns v, a value or an error value of the Result type: COMMIT,
\* return ok(v), finally client.release()
WorkReturn(v) ==
    /\ uow.pc = "work"
    /\ orders' = ApplyWrites(orders, tx.writes)
    /\ outbox' = MergeRows(outbox, tx.rows)
    /\ tx' = NoTx
    /\ leased' = leased - 1
    /\ uow' = [uow EXCEPT !.pc = "done", !.result = "ok", !.ret = v,
                          !.stmts = Append(@, "COMMIT"), !.releases = @ + 1]
    /\ UNCHANGED <<rowLock, clock, nextId, dispVars, nFail, uc, busCall, dom, mem, admVars>>

\* work returns v, COMMIT fails: catch, ROLLBACK, finally release.
WorkCommitFail(v, rbOk) ==
    /\ uow.pc = "work"
    /\ nFail + Failures(rbOk) <= MaxFail
    /\ nFail' = nFail + Failures(rbOk)
    /\ tx' = NoTx
    /\ leased' = leased - 1
    /\ uow' = Caught([uow EXCEPT !.ret = v, !.stmts = Append(@, "COMMIT")],
                     "Error", rbOk)
    /\ UNCHANGED <<dbVars, dispVars, orders, uc, busCall, dom, mem, admVars>>

\* The catch block committing instead of rolling back.
WorkThrowCommits(e) ==
    /\ uow.pc = "work"
    /\ orders' = ApplyWrites(orders, tx.writes)
    /\ outbox' = MergeRows(outbox, tx.rows)
    /\ tx' = NoTx
    /\ leased' = leased - 1
    /\ uow' = [uow EXCEPT !.pc = "done", !.result = "fail", !.ret = "throw",
                          !.error = ToAppError(e),
                          !.stmts = Append(@, "COMMIT"), !.releases = @ + 1]
    /\ UNCHANGED <<rowLock, clock, nextId, dispVars, nFail, uc, busCall, dom, mem, admVars>>

\* work throws e: catch, ROLLBACK, return fail(error), finally client.release()
WorkThrow(e) ==
    /\ uow.pc = "work"
    /\ tx' = NoTx
    /\ leased' = leased - 1
    /\ uow' = Caught([uow EXCEPT !.ret = "throw"], e, TRUE)
    /\ UNCHANGED <<dbVars, dispVars, nFail, orders, uc, busCall, dom, mem, admVars>>

\* The ROLLBACK of the catch block failing without the finally block.
WorkThrowRollbackFailsNoRelease(e) ==
    /\ uow.pc = "work"
    /\ nFail < MaxFail
    /\ nFail' = nFail + 1
    /\ tx' = NoTx
    /\ uow' = [Caught([uow EXCEPT !.ret = "throw"], e, FALSE)
                  EXCEPT !.releases = uow.releases]
    /\ UNCHANGED <<dbVars, dispVars, leased, orders, uc, busCall, dom, mem, admVars>>

\* work throws e and the ROLLBACK of the catch block fails as well: that
\* error leaves run(); finally client.release()
WorkThrowRollbackFails(e) ==
    /\ uow.pc = "work"
    /\ nFail < MaxFail
    /\ nFail' = nFail + 1
    /\ tx' = NoTx
    /\ leased' = leased - 1
    /\ uow' = Caught([uow EXCEPT !.ret = "throw"], e, FALSE)
    /\ UNCHANGED <<dbVars, dispVars, orders, uc, busCall, dom, mem, admVars>>

\* query(work): pool.connect(), createRepositories(client), then work starts
\* (no transaction).
UowQuery ==
    /\ uow.pc \in {"idle", "done"}
    /\ leased' = leased + 1
    /\ uow' = [InitUow EXCEPT !.pc = "qwork", !.op = "query", !.pre = orders,
                              !.acquired = 1]
    /\ UNCHANGED <<dbVars, dispVars, nFail, orders, tx, uc, busCall, dom, mem, admVars>>

\* query: work returns v: return ok(v), finally client.release()
QueryReturn(v) ==
    /\ uow.pc = "qwork"
    /\ leased' = leased - 1
    /\ uow' = [uow EXCEPT !.pc = "done", !.result = "ok", !.ret = v,
                          !.releases = @ + 1]
    /\ UNCHANGED <<dbVars, dispVars, nFail, orders, tx, uc, busCall, dom, mem, admVars>>

\* query: work throws e: return fail(...), finally client.release()
QueryThrow(e) ==
    /\ uow.pc = "qwork"
    /\ leased' = leased - 1
    /\ uow' = [uow EXCEPT !.pc = "done", !.result = "fail", !.ret = "throw",
                          !.error = ToAppError(e), !.releases = @ + 1]
    /\ UNCHANGED <<dbVars, dispVars, nFail, orders, tx, uc, busCall, dom, mem, admVars>>

\* What work returns or throws.
Returns == {"value", "error"}

Throws == {"AppError", "Error"}

NextUow ==
    \/ \E mode \in {"pool", "client"} : UowRun(mode)
    \/ \E op \in {"run", "query"} : UowConnectFail(op)
    \/ \E rbOk \in BOOLEAN : UowBeginFail(rbOk)
    \/ \E o \in Aggs : WorkCreate(o)
    \/ \E o \in Aggs : WorkLoad(o)
    \/ WorkAddLine
    \/ WorkSave
    \/ WorkPublish
    \/ \E v \in Returns : WorkReturn(v)
    \/ \E v \in Returns, rbOk \in BOOLEAN : WorkCommitFail(v, rbOk)
    \/ \E e \in Throws : WorkThrow(e)
    \/ \E e \in Throws : WorkThrowRollbackFails(e)
    \/ UowQuery
    \/ \E v \in Returns : QueryReturn(v)
    \/ \E e \in Throws : QueryThrow(e)

SpecUow == Init /\ [][NextUow]_vars

\* ----------------------------------------------------------------- use cases
\* The PostgreSQL wiring of buildContainer: PostgresOrderRepository and
\* OutboxEventBus are both built on the Pool.

\* CreateOrderUseCase.execute: the DTO is valid, nextId(), Order.create
UcCreate(q, o) ==
    /\ uc[q].pc \in {"idle", "done"}
    /\ o \notin DOMAIN orders
    /\ \A p \in Reqs \ {q} : uc[p].pc \in {"idle", "done"} \/ uc[p].order.id # o
    /\ uc' = [uc EXCEPT ![q] = [pc |-> "save", kind |-> "create",
                                order |-> OrderCreate(o), result |-> "none"]]
    /\ UNCHANGED <<dbVars, dispVars, nFail, leased, orders, tx, uow, busCall, dom, mem, admVars>>

\* AddItemOrderUseCase.execute: the DTO is valid, findById finds the order,
\* the price is known, order.addLine
UcAddItem(q, o) ==
    /\ uc[q].pc \in {"idle", "done"}
    /\ o \in DOMAIN orders
    /\ orders[o] < MaxLines
    /\ uc' = [uc EXCEPT ![q] = [pc |-> "save", kind |-> "addItem",
                                order |-> OrderAddLine(MapToOrder(o, orders[o])),
                                result |-> "none"]]
    /\ UNCHANGED <<dbVars, dispVars, nFail, leased, orders, tx, uow, busCall, dom, mem, admVars>>

\* orderRepository.save(order) on the Pool: BEGIN, upsert, replace items,
\* COMMIT in a transaction of its own.
UcSaveOk(q) ==
    /\ uc[q].pc = "save"
    /\ orders' = SaveOrder(orders, uc[q].order)
    /\ uc' = [uc EXCEPT ![q].pc = "publish"]
    /\ UNCHANGED <<dbVars, dispVars, nFail, leased, tx, uow, busCall, dom, mem, admVars>>

\* A failing save that also empties the buffer.
UcSaveFailClears(q) ==
    /\ uc[q].pc = "save"
    /\ nFail < MaxFail
    /\ nFail' = nFail + 1
    /\ uc' = [uc EXCEPT ![q].pc = "done", ![q].result = "fail",
                        ![q].order = OrderClearEvents(@)]
    /\ UNCHANGED <<dbVars, dispVars, leased, orders, tx, uow, busCall, dom, mem, admVars>>

\* orderRepository.save fails (ROLLBACK): if (!saveResult.ok) return fail(...)
UcSaveFail(q) ==
    /\ uc[q].pc = "save"
    /\ nFail < MaxFail
    /\ nFail' = nFail + 1
    /\ uc' = [uc EXCEPT ![q].pc = "done", ![q].result = "fail"]
    /\ UNCHANGED <<dbVars, dispVars, leased, orders, tx, uow, busCall, dom, mem, admVars>>

\* eventBus.publish([...order.getEvents()]) on the Pool succeeds, then
\* order.clearEvents() and return ok(...)
UcPublishOk(q) ==
    /\ uc[q].pc = "publish"
    /\ nextId + Len(uc[q].order.events) - 1 <= MaxRows
    /\ clock' = clock + 1
    /\ outbox' = OutboxInsert(outbox, nextId, uc[q].order.id, uc[q].order.events,
                              clock')
    /\ nextId' = nextId + Len(uc[q].order.events)
    /\ uc' = [uc EXCEPT ![q].pc = "done", ![q].result = "ok",
                        ![q].order = OrderClearEvents(@)]
    /\ UNCHANGED <<rowLock, dispVars, nFail, leased, orders, tx, uow, busCall, dom, mem, admVars>>

\* eventBus.publish returns a failure (the INSERT fails):
\* if (!publishResult.ok) return fail(...)
UcPublishFail(q) ==
    /\ uc[q].pc = "publish"
    /\ nFail < MaxFail
    /\ nFail' = nFail + 1
    /\ uc' = [uc EXCEPT ![q].pc = "done", ![q].result = "fail"]
    /\ UNCHANGED <<dbVars, dispVars, leased, orders, tx, uow, busCall, dom, mem, admVars>>

NextUc ==
    \E q \in Reqs :
        \/ \E o \in Aggs : UcCreate(q, o)
        \/ \E o \in Aggs : UcAddItem(q, o)
        \/ UcSaveOk(q)
        \/ UcSaveFail(q)
        \/ UcPublishOk(q)
        \/ UcPublishFail(q)

SpecUc == Init /\ [][NextUc]_vars

\* ------------------------------------------------------------------ pool
\* Everything outside the unit of work that takes connections from the Pool:
\* a dispatcher (poll cycle, retry, cleanup, statistics), the event bus built
\* on the Pool, and the connection check.
NextPool ==
    \/ \E e \in OrderEvents, outcome \in {"ok", "connectFail", "insertFail"} :
          BusPublish(<<e>>, outcome)
    \/ \E outcome \in {"ok", "connectFail", "queryFail"} : CheckPostgresConnection(outcome)
    \/ \E i \in PoolInsts :
          \/ ProcessOutbox(i)
          \/ FetchSelect(i)
          \/ FetchCommit(i)
          \/ FetchFail(i)
          \/ PublishOk(i)
          \/ PublishFail(i)
          \/ MarkUpdate(i)
          \/ MarkCommit(i)
          \/ MarkFail(i)
          \/ \E c \in Cutoffs, outcome \in {"ok", "publishFail", "markFail"} :
                RetryFailedEvents(i, c, outcome)
          \/ \E c \in Cutoffs, ok \in BOOLEAN : CleanupPublishedEvents(i, c, ok)
          \/ \E ok \in BOOLEAN : GetOutboxStats(i, ok)

SpecPool == Init /\ [][NextPool]_vars

\* ----------------------------------------------------- publisher history
\* Positions of pubLog whose batch contains row r.
Handed(r) == {k \in 1..Len(pubLog) : r \in Range(pubLog[k].ids)}

FirstHanded(r) == CHOOSE k \in Handed(r) : \A m \in Handed(r) : k <= m

\* Instances that handed row r to the publisher.
HandedBy(r) == {pubLog[k].inst : k \in Handed(r)}

IsPublished(r) == r \in Ids(outbox) /\ outbox[r].published_at # NULL

\* --------------------------------------------------------------- claims

\* C4: with several dispatcher instances polling the same table, no row is
\* handed to the publisher by more than one instance.
C4_NoRowHandedByTwoInstances ==
    \A r \in Ids(outbox) : Cardinality(HandedBy(r)) <= 1

\* C8: published_at of a row changes at most once, from NULL to a timestamp;
\* once set it is neither cleared nor overwritten.
C8_PublishedAtSetOnce ==
    [][\A r \in Ids(outbox) :
          (outbox[r].published_at # NULL /\ r \in Ids(outbox'))
              => outbox'[r].published_at = outbox[r].published_at]_vars

\* C9: of two events of one aggregate, the one inserted (strictly) earlier is
\* first received by the publisher no later than the other one.
C9_PerAggregateOrder ==
    \A r1, r2 \in Ids(outbox) :
        (/\ outbox[r1].agg = outbox[r2].agg
         /\ outbox[r1].created_at < outbox[r2].created_at
         /\ Handed(r2) # {})
            => (Handed(r1) # {} /\ FirstHanded(r1) <= FirstHanded(r2))

\* C10: n events persisted by one publish call, then one poll cycle of one
\* dispatcher with batchSize >= n and no failure: the publisher is called
\* exactly once, with the n rows in the order of emission, and all n rows
\* end published.
OnePublishCall ==
    /\ Ids(outbox) # {}
    /\ \A r1, r2 \in Ids(outbox) : outbox[r1].created_at = outbox[r2].created_at

OneCycleDone(i) ==
    /\ pc[i] = "idle"
    /\ stats[i].totalProcessed > 0
    /\ \A j \in Insts \ {i} : pc[j] = "idle" /\ stats[j].lastRun = NULL
    /\ nFail = 0
    /\ config.batchSize >= Cardinality(Ids(outbox))

C10_OneCallInEmissionOrder ==
    \A i \in Insts :
        (OnePublishCall /\ OneCycleDone(i))
            => /\ Len(pubLog) = 1
               /\ pubLog[1].ids = [k \in 1..Cardinality(Ids(outbox)) |-> k]
               /\ \A r \in Ids(outbox) : IsPublished(r)

\* C5 as stated: once the publisher has returned for the claimed batch, the
\* cycle ends with every claimed row published, and no later SELECT of a poll
\* cycle returns a published row.
SelectsOnlyPending ==
    \A i \in Insts :
        (pc[i] = "fetch" /\ pc'[i] = "fetchCommit")
            => \A r \in Range(batch'[i]) : ~IsPublished(r)

StaysPublished ==
    \A r \in Ids(outbox) :
        (IsPublished(r) /\ r \in Ids(outbox')) => outbox'[r].published_at # NULL

LastHandFailed(r) ==
    /\ Handed(r) # {}
    /\ LET k == CHOOSE m \in Handed(r) : \A n \in Handed(r) : n <= m
       IN ~pubLog[k].ok /\ pc[pubLog[k].inst] = "idle"

Claimed(r) == \E i \in Insts : pc[i] # "idle" /\ r \in Range(batch[i])

C6_PublisherThrows ==
    /\ [][\A i \in Insts :
             (pc[i] = "publish" /\ pc'[i] = "idle")
                 => /\ stats'[i] = [stats[i] EXCEPT !.totalFailed = @ + 1]
                    /\ outbox' = outbox
                    /\ ~isProcessing'[i]]_vars
    /\ \A r \in 1..MaxRows :
          ((\E i \in Insts : intervalId[i]) /\ LastHandFailed(r) /\ ~IsPublished(r))
              ~> (Claimed(r) \/ IsPublished(r))

\* The publisher has thrown for a batch whose rows are still pending.
C6_Witness ==
    \E r \in Ids(outbox), i \in Insts :
        /\ LastHandFailed(r) /\ ~IsPublished(r)
        /\ stats[i].totalFailed = 1 /\ stats[i].totalProcessed = 0
        /\ intervalId[i]

\* C7: every row committed with published_at NULL is eventually marked
\* published, and a published row has been handed to a publisher call that
\* returned, as long as some started dispatcher keeps polling.
C7_EventuallyPublished ==
    /\ [](\A r \in Ids(outbox) :
            IsPublished(r) => \E k \in Handed(r) : pubLog[k].ok)
    /\ \A r \in 1..MaxRows :
          ((\E i \in Insts : intervalId[i]) /\ r \in Pending(outbox))
              ~> IsPublished(r)

\* A row was published after a failed cycle.
C7_Witness ==
    \E r \in Ids(outbox) : IsPublished(r) /\ nFail > 0

\* C1: a run whose work saved an order on the transaction-scoped repository
\* and published its events with an OutboxEventBus built as the documented
\* usage builds it ends with the order write and the outbox rows both
\* committed or both rolled back.
OrderWriteVisible ==
    \A o \in DOMAIN uow.saved : o \in DOMAIN orders /\ orders[o] = uow.saved[o]

OutboxRowsVisible == uow.published \subseteq Ids(outbox)

OutboxRowsAbsent == uow.published \cap Ids(outbox) = {}

C1_SaveAndPublishAtomic ==
    (uow.pc = "done" /\ uow.bus = "pool" /\ uow.saved # <<>> /\ uow.published # {})
        => /\ uow.result = "ok" => (OrderWriteVisible /\ OutboxRowsVisible)
           /\ uow.result = "fail" => (orders = uow.pre /\ OutboxRowsAbsent)

\* C2: when a use case execution has finished, the persisted order reflects
\* its mutation exactly if the outbox holds the event of that mutation.
MutationPersisted(q) ==
    /\ uc[q].order.id \in DOMAIN orders
    /\ orders[uc[q].order.id] >= uc[q].order.lines

MutationEvent(q) == uc[q].order.lines + 1

EventInOutbox(q) ==
    \E r \in Ids(outbox) :
        outbox[r].agg = uc[q].order.id /\ outbox[r].evt = MutationEvent(q)

C2_StateIffEvent ==
    \A q \in Reqs : uc[q].pc = "done" => (MutationPersisted(q) <=> EventInOutbox(q))

\* C3: when work throws, ROLLBACK is issued and no COMMIT, run does not
\* report success, and the orders read afterwards are those of before the
\* transaction.
C3_RollbackOnThrow ==
    (uow.pc = "done" /\ uow.op = "run" /\ uow.ret = "throw")
        => /\ uow.stmts = <<"BEGIN", "ROLLBACK">>
           /\ uow.result # "ok"
           /\ orders = uow.pre
           /\ uow.bus = "client" => OutboxRowsAbsent

\* work has saved an order on the transaction's repository and then thrown.
C3_Witness ==
    /\ uow.pc = "done" /\ uow.ret = "throw" /\ uow.result = "fail"
    /\ \E o \in DOMAIN uow.saved : o \in DOMAIN uow.pre /\ uow.saved[o] # uow.pre[o]

\* C11: an instance never has more than one poll cycle in flight, and a
\* processOutbox call made by the timer, by start() or by the host while a
\* cycle of the instance is in flight touches neither the database nor the
\* publisher nor the cycle in flight, and leaves lastRun and the counters.
Counters(st) == <<st.totalProcessed, st.totalPublished, st.totalFailed, st.lastRun>>

C11_SingleFlight ==
    /\ [](\A i \in Insts : inFlight[i] <= 1 /\ (isProcessing[i] <=> inFlight[i] = 1))
    /\ [][\A i \in Insts :
            (isProcessing[i] /\ (ProcessOutbox(i) \/ TimerFire(i) \/ Start(i)))
                => /\ UNCHANGED <<dbVars, pubLog, leased, pc, batch, inFlight, markTs>>
                   /\ Counters(stats'[i]) = Counters(stats[i])]_vars

\* start() was called while a cycle was in flight: its processOutbox call
\* returned at the guard and the cycle in flight goes on.
C11_Witness ==
    \E i \in Insts : startSkipped[i] /\ inFlight[i] = 1 /\ pc[i] = "publish"

\* C12: every way a poll cycle ends, a failure of the connection, of the
\* claiming query, of the publisher or of the mark update included, resets
\* the single-flight flag; a failure adds one to totalFailed and nothing
\* else to the counters; after a failed cycle the timer starts the next one.
CycleEnds(i) == inFlight'[i] < inFlight[i]

CycleFails(i) == pc[i] # "idle" /\ pc'[i] # pc[i] /\ nFail' = nFail + 1

C12_FailuresCaughtAndCounted ==
    /\ [][\A i \in Insts :
            /\ CycleEnds(i) => (~isProcessing'[i] /\ pc'[i] = "idle")
            /\ CycleFails(i)
                  => /\ CycleEnds(i)
                     /\ stats'[i] = [stats[i] EXCEPT !.totalFailed = @ + 1]]_vars
    /\ [](\A i \in Insts : pc[i] = "idle" => ~isProcessing[i])
    /\ \A i \in Insts :
          (timers[i] > 0 /\ pc[i] = "idle" /\ stats[i].totalFailed > 0)
              ~> (pc[i] = "fetch")

\* After a failed cycle of an instance a later cycle of it has claimed rows.
C12_Witness ==
    \E i \in Insts :
        stats[i].totalFailed > 0 /\ timers[i] > 0 /\ pc[i] = "publish"

\* C13: shutdown() cancels the timer at once and leaves the cycle in flight
\* as it is; it returns only when no cycle of the instance is in flight; as
\* long as start() has not installed a new timer, no timer is live that
\* could start a cycle.
ShutdownCalled(i) == sd[i] # "waiting" /\ sd'[i] = "waiting"

ShutdownReturns(i) == sd[i] = "waiting" /\ sd'[i] = "done"

C13_ShutdownWaitsForCycle ==
    /\ [][\A i \in Insts :
            /\ ShutdownCalled(i)
                  => /\ timers'[i] = 0 /\ ~intervalId'[i]
                     /\ UNCHANGED <<pc, batch, isProcessing, inFlight, dbVars, pubLog>>
            /\ ShutdownReturns(i)
                  => /\ inFlight[i] = 0 /\ pc[i] = "idle"
                     /\ UNCHANGED <<pc, batch, isProcessing, inFlight, dbVars, pubLog>>
            /\ (sd[i] = "waiting" /\ pc[i] = "markCommit" /\ pc'[i] = "idle"
                   /\ nFail' = nFail)
                  => \A r \in Range(batch[i]) \cap Ids(outbox') :
                         outbox'[r].published_at # NULL]_vars
    /\ [](\A i \in Insts : (sd[i] # "none" /\ ~intervalId[i]) => timers[i] = 0)

\* shutdown() has cancelled the timer and waits while the cycle in flight is
\* in its mark-as-published step.
C13_Witness ==
    \E i \in Insts :
        sd[i] = "waiting" /\ timers[i] = 0 /\ pc[i] = "markCommit" /\ isProcessing[i]

\* C14: a dispatcher is running (isRunning, timer installed) only with
\* config.enabled, and then exactly one timer is live; the start() that makes
\* it running installs that one timer and calls processOutbox once, which
\* enters a poll cycle at once (unless one is in flight, when the call
\* returns at the guard); start() on a running or disabled dispatcher
\* changes nothing.
BecomesRunning(i) == ~stats[i].isRunning /\ stats'[i].isRunning

C14_StartOnlyWhenStoppedAndEnabled ==
    /\ [](\A i \in Insts :
            /\ timers[i] = IF intervalId[i] THEN 1 ELSE 0
            /\ stats[i].isRunning = intervalId[i]
            /\ intervalId[i] => config.enabled)
    /\ [][\A i \in Insts :
            /\ BecomesRunning(i)
                  => /\ ~intervalId[i] /\ config.enabled
                     /\ intervalId'[i] /\ timers'[i] = timers[i] + 1
                     /\ IF isProcessing[i]
                        THEN /\ UNCHANGED <<pc, inFlight, isProcessing>>
                             /\ Counters(stats'[i]) = Counters(stats[i])
                        ELSE /\ pc'[i] = "fetch" /\ inFlight'[i] = 1
                             /\ isProcessing'[i]
                             /\ stats'[i].lastRun = clock
            /\ (Start(i) /\ (intervalId[i] \/ ~config.enabled)) => UNCHANGED vars]_vars

\* start() has made a stopped, enabled dispatcher running: one timer, the
\* first poll cycle entered.
C14_Witness ==
    \E i \in Insts :
        /\ stats[i].isRunning /\ timers[i] = 1 /\ ~startSkipped[i]
        /\ pc[i] = "fetch" /\ stats[i].lastRun = clock

\* C15: when work completes by returning an error value of the Result type,
\* run rolls back: it reports a failure, issues no COMMIT and the orders are
\* those of before the transaction.
C15_RollbackOnErrorResult ==
    (uow.pc = "done" /\ uow.op = "run" /\ uow.ret = "error")
        => /\ uow.result = "fail"
           /\ "COMMIT" \notin Range(uow.stmts)
           /\ orders = uow.pre

\* C16: run and query never reject: whatever fails, the caller gets a Result,
\* and a failure Result carries an AppError.
C16_NeverRejects ==
    uow.pc = "done"
        => /\ uow.result \in {"ok", "fail"}
           /\ uow.result = "fail" => uow.error \in {"AppError", "InfraError"}

C20_BusUsesGivenClient ==
    uow.published # {}
        => IF uow.bus = "client"
           THEN /\ uow.busOps = <<"insert:borrowed">>
                /\ uow.busLeased = 1
                /\ uow.pc = "work"
                      => /\ uow.published \subseteq Ids(tx.rows)
                         /\ OutboxRowsAbsent
                         /\ uow.releases = 0 /\ leased = 1
           ELSE /\ uow.busOps = <<"connect", "insert:own", "release">>
                /\ uow.busLeased = 2
                /\ OutboxRowsVisible
                /\ uow.pc = "work" => leased = 1

\* work has published through a bus built on the transaction's client.
C20_Witness ==
    uow.pc = "work" /\ uow.bus = "client" /\ uow.published # {} /\ uow.saved # <<>>

\* C19: a publish call inserts one row per event, in the order of the events,
\* or no row at all; a list holding an event without aggregate id, or whose
\* INSERT fails, inserts nothing and yields a failure.
Malformed(es) == \E k \in 1..Len(es) : "orderId" \notin DOMAIN es[k]

NewRows == Ids(outbox') \ Ids(outbox)

C19_AllOrNothing ==
    [][LET es == busCall'.events
       IN /\ Ids(outbox) \subseteq Ids(outbox')
          /\ \/ NewRows = {}
             \/ /\ Cardinality(NewRows) = Len(es)
                /\ busCall'.result = "ok"
                /\ \A k \in 1..Len(es) :
                      /\ outbox'[nextId + k - 1].agg = es[k].orderId
                      /\ outbox'[nextId + k - 1].evt = es[k].evt
          /\ (Malformed(es) \/ busCall'.result # "ok") => NewRows = {}
          /\ (busCall'.result = "ok" /\ es # <<>>) => NewRows # {}]_vars

\* Two valid events and one without aggregate id were published: a failure,
\* nothing inserted.
C19_Witness ==
    /\ Len(busCall.events) = 3
    /\ Malformed(busCall.events)
    /\ \E k \in 1..3 : "orderId" \in DOMAIN busCall.events[k]
    /\ busCall.result = "fail"
    /\ outbox = <<>>

\* C18: outside the unit of work every connection taken from the Pool is
\* given back on every exit path: the only connections checked out are those
\* of the fetch and mark transactions still open.
C18_AllConnectionsReleased ==
    leased = Cardinality({i \in Insts : pc[i] \in {"fetchCommit", "markCommit"}})

\* C21: publish never throws: every failure is returned as a failed Result
\* whose error has type 'infra', and a call attempts at most one INSERT.
C21_PublishNeverThrows ==
    /\ busCall.result \in {"none", "ok", "fail"}
    /\ busCall.result = "fail" => busCall.error = "infra"
    /\ Cardinality({k \in 1..Len(busCall.ops) : busCall.ops[k] = "insert"}) <= 1

\* C22: publish of an empty list returns success without taking a
\* connection, sending a statement or inserting a row.
C22_EmptyPublishIsNoOp ==
    [][busCall'.events = <<>> /\ busCall'.result # "none"
          => /\ busCall'.result = "ok"
             /\ busCall'.ops = <<>>
             /\ outbox' = outbox
             /\ leased' = leased
             /\ nextId' = nextId]_vars

\* An empty list was published after a call that had inserted rows.
C22_Witness ==
    busCall.events = <<>> /\ busCall.result = "ok" /\ outbox # <<>>

\* C23: rows leave the outbox only in a cleanupPublishedEvents call, which
\* removes exactly the rows published before its cutoff: pending rows and
\* rows published at or after the cutoff stay as they were.
Deleted == Ids(outbox) \ Ids(outbox')

C23_CleanupDeletesOnlyOldPublished ==
    [][/\ Deleted # {} =>
             \E i \in Insts, c \in Cutoffs :
                /\ CleanupPublishedEvents(i, c, TRUE)
                /\ Deleted = {r \in Ids(outbox) : /\ outbox[r].published_at # NULL
                                                  /\ outbox[r].published_at < c}
                /\ \A r \in Ids(outbox) \ Deleted : outbox'[r] = outbox[r]
       /\ \A r \in Deleted : outbox[r].published_at # NULL]_vars

\* A cleanup has removed a row and the outbox holds a published row.
C23_Witness ==
    /\ \E r \in 1..(nextId - 1) : r \notin Ids(outbox)
    /\ \E r \in Ids(outbox) : outbox[r].published_at # NULL

\* C24: the batch a poll cycle selects holds at most batchSize rows, all
\* pending and not locked by another claimant when selected, sorted by
\* createdAt ascending, and no pending unlocked row left out is older than a
\* row of the batch; this batch, unchanged, is what the publisher receives.
Free == {r \in Ids(outbox) : outbox[r].published_at = NULL /\ rowLock[r] = "none"}

C24_BatchIsOldestPending ==
    [][\A i \in Insts :
          /\ (pc[i] = "fetch" /\ pc'[i] = "fetchCommit") =>
                LET s == batch'[i]
                IN /\ Len(s) <= config.batchSize
                   /\ Len(s) = Min(config.batchSize, Cardinality(Free))
                   /\ \A k \in 1..Len(s) : s[k] \in Free
                   /\ \A a, b \in 1..Len(s) : a < b =>
                         /\ s[a] # s[b]
                         /\ outbox[s[a]].created_at <= outbox[s[b]].created_at
                   /\ \A r \in Free \ Range(s) : \A k \in 1..Len(s) :
                         outbox[s[k]].created_at <= outbox[r].created_at
          /\ (pc[i] \in {"fetchCommit", "publish"} /\ pc'[i] \in {"fetchCommit", "publish"})
                => batch'[i] = batch[i]
          /\ (pc[i] = "publish" /\ pc'[i] # "publish") =>
                /\ Len(pubLog') = Len(pubLog) + 1
                /\ pubLog'[Len(pubLog')].inst = i
                /\ pubLog'[Len(pubLog')].ids = batch[i]]_vars

\* The publisher has received a batch of two rows created at different
\* times.
C24_Witness ==
    \E i \in Insts :
       /\ pc[i] = "mark"
       /\ Len(batch[i]) = 2
       /\ outbox[batch[i][1]].created_at < outbox[batch[i][2]].created_at
       /\ pubLog[Len(pubLog)].ids = batch[i]

\* C25: as long as clearEvents has not been called, the buffer of an order
\* holds one event per mutating call that succeeded: one for create and one
\* per line added; rejected calls add none.
C25_OneEventPerSuccessfulCall ==
    /\ ~dom.exists => dom.events = <<>> /\ dom.succeeded = 0
    /\ (dom.exists /\ ~dom.cleared) =>
          /\ Len(dom.events) = dom.succeeded
          /\ dom.succeeded = 1 + Len(dom.order.lines)
          /\ dom.succeeded <= 1 + dom.calls

\* Two lines were added and a third addLine call was rejected.
C25_Witness ==
    /\ dom.exists /\ ~dom.cleared
    /\ dom.calls = 3 /\ dom.succeeded = 3
    /\ dom.last.op = "addLine" /\ dom.last.threw
    /\ Len(dom.events) = 3

\* C26: an addLine call whose unit price is not in the order currency, or
\* whose SKU is already in the order, throws and leaves lines, total and
\* event buffer as they were; a failing create yields no order and no event.
IsAddLineStep == dom'.last.op = "addLine" /\ dom'.calls = dom.calls + 1

C26_RejectedCallChangesNothing ==
    [][/\ IsAddLineStep =>
             LET l == dom'.last
                 invalid == \/ l.unitPrice.currency # dom.order.currency
                            \/ \E k \in 1..Len(dom.order.lines) :
                                  dom.order.lines[k].sku = l.sku
             IN /\ invalid <=> l.threw
                /\ l.threw => dom'.order = dom.order /\ dom'.events = dom.events
       /\ (dom'.last.op = "create" /\ dom'.last.threw) =>
             ~dom'.exists /\ dom'.order = NoAggregate /\ dom'.events = <<>>]_vars

\* An addLine call with a SKU already in the order was rejected.
C26_Witness ==
    /\ dom.last.op = "addLine" /\ dom.last.threw
    /\ dom.last.unitPrice.currency = dom.order.currency
    /\ \E k \in 1..Len(dom.order.lines) : dom.order.lines[k].sku = dom.last.sku
    /\ Len(dom.events) = 2

\* C27: getEvents returns the events of the buffer in emission order, in an
\* array of its own: later addLine and clearEvents calls do not change what
\* the caller holds, and the caller's writes to it do not change the buffer.
C27_GetEventsIsSnapshot ==
    [][/\ dom'.last.op = "getEvents" =>
             Snapshot' = dom.events /\ dom'.events = dom.events
       /\ (dom.ref # "none" /\ dom'.last.op \in {"addLine", "clearEvents"}) =>
             Snapshot' = Snapshot
       /\ dom'.last.op = "edit" => dom'.events = dom.events
       /\ IsAddLineStep =>
             SubSeq(dom'.events, 1, Len(dom.events)) = dom.events]_vars

\* The caller holds a snapshot of two events while the buffer, cleared and
\* written again since, holds one other event.
C27_Witness ==
    /\ dom.ref = "own" /\ Len(dom.own) = 2
    /\ Len(dom.events) = 1 /\ dom.events[1] # dom.own[1] /\ dom.cleared

\* C28: clearEvents does not throw and leaves the buffer empty and lines and
\* total as they were; a second call in a row changes nothing.
C28_ClearEventsIdempotent ==
    [][dom'.last.op = "clearEvents" =>
          /\ ~dom'.last.threw
          /\ dom'.events = <<>>
          /\ dom'.order = dom.order
          /\ dom'.last.again =>
                dom.events = <<>> /\ dom'.own = dom.own /\ dom'.ref = dom.ref]_vars

\* clearEvents was called twice in a row on an order with a line.
C28_Witness ==
    /\ dom.last.op = "clearEvents" /\ dom.last.again
    /\ dom.events = <<>>
    /\ Len(dom.order.lines) = 1 /\ dom.order.total.amount > 0

\* C29: the total of an order is the sum over its lines of unit price times
\* quantity, in the order currency, and the OrderLineAdded event of a
\* successful addLine carries the line and this new total.
RECURSIVE SumOfLines(_)
SumOfLines(lines) ==
    IF lines = <<>> THEN 0
    ELSE Head(lines).unitPrice.amount * Head(lines).quantity + SumOfLines(Tail(lines))

C29_TotalIsSumOfLines ==
    [][/\ dom'.exists =>
             /\ dom'.order.total.amount = SumOfLines(dom'.order.lines)
             /\ dom'.order.total.currency = dom'.order.currency
       /\ (IsAddLineStep /\ ~dom'.last.threw) =>
             LET e == dom'.events[Len(dom'.events)]
             IN /\ Len(dom'.events) = Len(dom.events) + 1
                /\ e.type = "OrderLineAdded"
                /\ e.orderId = dom.order.id
                /\ e.line = dom'.order.lines[Len(dom'.order.lines)]
                /\ e.newTotal = dom'.order.total
                /\ e.newTotal.amount =
                      dom.order.total.amount + dom'.last.unitPrice.amount * dom'.last.quantity]_vars

\* 2 x 29.99 EUR was added to an empty order: total and newTotal are 59.98.
C29_Witness ==
    /\ Len(dom.order.lines) = 1
    /\ dom.order.lines[1].quantity = 2
    /\ dom.order.lines[1].unitPrice = [amount |-> 29990, currency |-> "EUR"]
    /\ dom.order.total = [amount |-> 59980, currency |-> "EUR"]
    /\ dom.events # <<>>
    /\ dom.events[Len(dom.events)].type = "OrderLineAdded"
    /\ dom.events[Len(dom.events)].newTotal.amount = 59980

\* C30: execute of AddItemOrderUseCase fails with type 'validation' for a
\* malformed SKU, a quantity outside 1..1000 or a SKU already in the order,
\* and with type 'notFound' for an unknown order id or a SKU without a price
\* (the SKU and quantity being well formed); a failing call leaves the stored
\* orders as they were and publishes no event.
IsAddItemStep == mem'.last.op = "addItem" /\ mem'.calls = mem.calls + 1

C30_AddItemFailures ==
    [][IsAddItemStep =>
          LET dto == mem'.last.dto
              malformed == dto.sku \notin {"BOOK001", "BOOK002", "UNKNOWN999"}
              badQuantity == dto.quantity < 1 \/ dto.quantity > 1000
              unknownOrder == dto.orderId \notin DOMAIN mem.orders
              noPrice == dto.sku \notin {"BOOK001", "BOOK002"}
              duplicate == /\ ~unknownOrder
                           /\ \E k \in 1..Len(mem.orders[dto.orderId].order.lines) :
                                 mem.orders[dto.orderId].order.lines[k].sku = dto.sku
          IN /\ (malformed \/ badQuantity \/ duplicate) =>
                   ~mem'.last.ok /\ mem'.last.type = "validation"
             /\ (~malformed /\ ~badQuantity /\ (unknownOrder \/ noPrice)) =>
                   ~mem'.last.ok /\ mem'.last.type = "notFound"
             /\ mem'.last.ok <=>
                   ~(malformed \/ badQuantity \/ unknownOrder \/ noPrice \/ duplicate)
             /\ ~mem'.last.ok =>
                   mem'.orders = mem.orders /\ mem'.published = mem.published
             /\ mem'.last.ok =>
                   Len(mem'.published) = Len(mem.published) + 1]_vars

\* A second request for a SKU already in the stored order was refused.
C30_Witness ==
    /\ mem.last.op = "addItem" /\ ~mem.last.ok /\ mem.last.type = "validation"
    /\ mem.last.dto.orderId \in DOMAIN mem.orders
    /\ mem.last.dto.quantity = 2
    /\ \E k \in 1..Len(mem.orders[mem.last.dto.orderId].order.lines) :
          mem.orders[mem.last.dto.orderId].order.lines[k].sku = mem.last.dto.sku
    /\ Len(mem.published) = 2

\* C31: with the in-memory adapters the event bus has received, for every
\* stored order, its OrderCreated event followed by one OrderLineAdded per
\* line, in the order of the calls, each exactly once, and nothing else; what
\* it has received is never received again.
ExpectedEvents(o) ==
    <<OrderCreated(o.id, o.currency)>> \o
    [k \in 1..Len(o.lines) |->
        OrderLineAdded(o.id, o.lines[k],
                       [amount |-> SumOfLines(SubSeq(o.lines, 1, k)),
                        currency |-> o.currency])]

C31_EachEventOnceInOrder ==
    [][/\ \A id \in DOMAIN mem'.orders :
             SelectSeq(mem'.published, LAMBDA e : e.orderId = id)
                = ExpectedEvents(mem'.orders[id].order)
       /\ \A k \in 1..Len(mem'.published) :
             mem'.published[k].orderId \in DOMAIN mem'.orders
       /\ Len(mem'.published) >= Len(mem.published)
       /\ SubSeq(mem'.published, 1, Len(mem.published)) = mem.published
       /\ (mem'.last.op # "none" /\ mem'.last.ok /\ mem' # mem) =>
             Len(mem'.published) = Len(mem.published) + 1]_vars

\* Two orders were created and two items added to the first one.
C31_Witness ==
    /\ Len(mem.published) = 4
    /\ mem.published[1].type = "OrderCreated"
    /\ \E id \in DOMAIN mem.orders : Len(mem.orders[id].order.lines) = 2
    /\ \E k \in 2..3 : mem.published[k].type = "OrderCreated"

C36_NoSecondConnectionWhileHolding ==
    \A i \in Insts : retry[i].pc = "connect" => retry[i].held = 0

\* Later deliveries by the same instance of a row of the k-th delivery.
Redeliveries(k) ==
    {j \in (k + 1)..Len(pubLog) :
        /\ pubLog[j].inst = pubLog[k].inst
        /\ Range(pubLog[j].ids) \cap Range(pubLog[k].ids) # {}}

\* C34: after a delivery that failed, the instance hands the rows of that
\* delivery to the publisher again at most maxRetries times.
C34_AtMostMaxRetries ==
    \A k \in 1..Len(pubLog) :
       ~pubLog[k].ok => Cardinality(Redeliveries(k)) <= maxRetries

\* The events of the aggregate of request q are rows of the table tbl.
EventsInOutbox(q, tbl) ==
    \A k \in 1..Len(uc[q].order.events) :
       \E r \in Ids(tbl) : /\ tbl[r].agg = uc[q].order.id
                           /\ tbl[r].evt = uc[q].order.events[k]

\* C33: while a use case is at save or at publish, the buffer of its
\* aggregate changes only in the step in which eventBus.publish returns
\* success for exactly those events, and then it becomes empty; a step in
\* which save or publish fails leaves the events in the buffer.
C33_ClearedOnlyAfterPublish ==
    [][\A q \in Reqs :
          uc[q].pc \in {"save", "publish"} =>
             /\ uc'[q].order.events # uc[q].order.events =>
                   /\ uc[q].pc = "publish"
                   /\ uc'[q].result = "ok"
                   /\ uc'[q].order.events = <<>>
                   /\ EventsInOutbox(q, outbox')
             /\ uc'[q].result = "fail" =>
                   /\ uc'[q].order.events = uc[q].order.events
                   /\ uc'[q].order.events # <<>>]_vars

\* One use case has failed with its events still in the buffer, another has
\* published and cleared its buffer.
C33_Witness ==
    \E q, p \in Reqs :
       /\ uc[q].pc = "done" /\ uc[q].result = "fail" /\ uc[q].order.events # <<>>
       /\ uc[p].pc = "done" /\ uc[p].result = "ok" /\ uc[p].order.events = <<>>

\* C37: in the container's cleanup pool.end() is called on the shared Pool
\* at most once while the call runs and exactly once when it is over, and
\* only when shutdown() of the dispatcher has returned and no poll cycle is
\* in flight.
C37_PoolEndedOnceAfterShutdown ==
    /\ cleanup.ends <= 1
    /\ cleanup.pc = "done" => cleanup.ends = 1
    /\ cleanup.ends > 0 =>
          \A i \in LifeInsts :
             /\ config.enabled => sd[i] = "done"
             /\ pc[i] = "idle" /\ ~isProcessing[i] /\ timers[i] = 0

\* C38: whatever start(), stop() and shutdown() calls have been made, on an
\* enabled or a disabled dispatcher, stats.isRunning is true exactly when
\* intervalId is set.
C38_IsRunningIffTimerInstalled ==
    \A i \in Insts : stats[i].isRunning <=> intervalId[i]

\* A dispatcher that was shut down has been started again and is running
\* with its timer installed.
C38_Witness ==
    \E i \in Insts : sd[i] = "done" /\ intervalId[i] /\ stats[i].isRunning

\* The lines of an aggregate, as a set.
LineSet(o) == {o.lines[k] : k \in 1..Len(o.lines)}

\* C39: the aggregate findById hands out has an empty event buffer, the id,
\* the currency, the lines (as a set) and the total of the aggregate that
\* was saved; after the addLine of a use case on it the buffer holds the
\* OrderLineAdded of that line and nothing else.
C39_LoadedOrderHasNoEvents ==
    /\ repo.phase # "failed"
    /\ repo.phase = "loaded" =>
          /\ repo.events = <<>>
          /\ repo.order.id = repo.from.id
          /\ repo.order.currency = repo.from.currency
          /\ LineSet(repo.order) = LineSet(repo.from)
          /\ Len(repo.order.lines) = Len(repo.from.lines)
          /\ repo.order.total = repo.from.total
    /\ repo.phase = "added" =>
          /\ Len(repo.events) = 1
          /\ repo.events[1].type = "OrderLineAdded"
          /\ repo.events[1].line = repo.order.lines[Len(repo.order.lines)]
          /\ repo.events[1].line \notin LineSet(repo.from)
    /\ repo.phase = "rejected" => repo.events = <<>>

\* An aggregate with two lines has been loaded with its lines in the other
\* order.
C39_Witness ==
    /\ repo.phase = "loaded"
    /\ Len(repo.from.lines) = 2
    /\ repo.order.lines # repo.from.lines

\* A use case has added a line to a loaded aggregate that had one line.
C39_WitnessAdded ==
    repo.phase = "added" /\ Len(repo.from.lines) = 1

====
